---- MODULE Spec2Model ----
(***************************************************************************)
(* DevVoice: the voice-command interpretation and safe-execution pipeline. *)
(* Text is a TLA+ string, read character by character with SubSeq.         *)
(***************************************************************************)
EXTENDS Integers, Sequences, FiniteSets, TLC

VARIABLES
  mode,               \* "chat" (chatMode) or "listen" (listenMode)
  useAgent,           \* the useAgent argument of chatMode / listenMode
  apiKey,             \* whether process.env.OPENAI_API_KEY is set
  repo,               \* the repository on disk at repoPath
  pc,                 \* position of the running turn
  turn,               \* number of the running turn (loop iteration)
  memory,             \* the SessionMemory object
  transcription,      \* text heard for the running turn
  intent,             \* local `intent` of the turn
  params,             \* local `params` of the turn
  requiresConfirmation, \* local `requiresConfirmation` of the turn
  commandTemplate,    \* local `commandTemplate` of the turn
  confirmText,        \* local `confirmText` of the turn
  result,             \* local `result` of the turn (ExecutionResult)
  summary,            \* local `summary` of the turn
  spoken,             \* last text handed to safeSpeak / speak
  log                 \* observation of the session: what ran, and when

vars == <<mode, useAgent, apiKey, repo, pc, turn, memory, transcription,
          intent, params, requiresConfirmation, commandTemplate, confirmText, result,
          summary, spoken, log>>

-----------------------------------------------------------------------------
(* Optional values: null / undefined is the empty sequence. *)

Null == <<>>

Some(x) == <<x>>

IsNull(o) == Len(o) = 0

Val(o) == o[1]

-----------------------------------------------------------------------------
(* Strings *)

Ch(s, i) == SubSeq(s, i, i)

LowerLetters == "abcdefghijklmnopqrstuvwxyz"

UpperLetters == "ABCDEFGHIJKLMNOPQRSTUVWXYZ"

Digits == "0123456789"

RECURSIVE IndexFrom(_, _, _)
\* String.prototype.indexOf(k, i-1) + 1: first position >= i where k occurs, 0 if none
IndexFrom(s, k, i) ==
  IF i + Len(k) - 1 > Len(s) THEN 0
  ELSE IF SubSeq(s, i, i + Len(k) - 1) = k THEN i
  ELSE IndexFrom(s, k, i + 1)

\* String.prototype.includes
Includes(s, k) == IndexFrom(s, k, 1) > 0

\* the set of the characters of s
CharsOf(s) == {Ch(s, i) : i \in 1..Len(s)}

UpperSet == CharsOf(UpperLetters)

LowerOf == [c \in UpperSet |-> Ch(LowerLetters, IndexFrom(UpperLetters, c, 1))]

LowerCh(c) == IF c \in UpperSet THEN LowerOf[c] ELSE c

RECURSIVE LowerFrom(_, _)
LowerFrom(s, i) == IF i > Len(s) THEN "" ELSE LowerCh(Ch(s, i)) \o LowerFrom(s, i + 1)

\* String.prototype.toLowerCase
toLowerCase(s) == LowerFrom(s, 1)

IsSpace(c) == c = " " \/ c = "\n" \/ c = "\t"

RECURSIVE FirstNonSpace(_, _)
FirstNonSpace(s, i) ==
  IF i > Len(s) THEN i ELSE IF IsSpace(Ch(s, i)) THEN FirstNonSpace(s, i + 1) ELSE i

RECURSIVE LastNonSpace(_, _)
LastNonSpace(s, i) ==
  IF i < 1 THEN i ELSE IF IsSpace(Ch(s, i)) THEN LastNonSpace(s, i - 1) ELSE i

\* String.prototype.trim
trim(s) == SubSeq(s, FirstNonSpace(s, 1), LastNonSpace(s, Len(s)))

-----------------------------------------------------------------------------
(* Intent: the closed enumeration *)

Intent ==
  {"RUN_TESTS", "GIT_STATUS", "RUN_LINT", "RUN_BUILD", "CREATE_BRANCH", "MAKE_COMMIT",
   "EXPLAIN_FAILURE", "DETAILS", "REPEAT_LAST", "HELP", "EXIT", "UNKNOWN"}

\* params: Record<string, string> | undefined; an absent key is Null
NoParams == [name |-> Null, message |-> Null]

\* JavaScript truthiness of an optional string: present and not ""
Truthy(o) == ~IsNull(o) /\ Val(o) # ""

-----------------------------------------------------------------------------
(* Whitelist Command Resolver *)

\* The repository at repoPath, as the resolver can observe it:
\*   manifest: "missing" | "unparsable" | "parsed"   (package.json)
\*   scripts:  the `scripts` mapping of a parsed manifest, key -> optional string
\*   pnpmLock, npmLock: presence of pnpm-lock.yaml / package-lock.json
\*   git: "staged" | "clean" | "notRepo" | "noGit"
NoScripts == [test |-> Null, lint |-> Null, build |-> Null]

\* variant: the scripts are taken from the manifest whether or not it parses
getPackageScriptsUnparsed(r) == r.scripts

getPackageScripts(r) == IF r.manifest = "parsed" THEN r.scripts ELSE NoScripts

\* variant: a manifest without a lockfile falls back to yarn
packageManagerOrYarn(r) ==
  IF r.manifest # "missing"
  THEN IF r.pnpmLock THEN Some("pnpm") ELSE IF r.npmLock THEN Some("npm") ELSE Some("yarn")
  ELSE Null

\* `let packageManager` of getCommandForIntent: Null, "pnpm" or "npm"
packageManager(r) ==
  IF r.manifest # "missing"
  THEN IF r.pnpmLock THEN Some("pnpm") ELSE IF r.npmLock THEN Some("npm") ELSE Null
  ELSE Null

\* exit status of `git diff --cached --quiet` run by execSync in repoPath
\* (127: the shell cannot find git; 129: git rejects --cached outside a work tree)
ProbeExit(r) ==
  CASE r.git = "clean" -> 0
    [] r.git = "staged" -> 1
    [] r.git = "notRepo" -> 129
    [] OTHER -> 127

\* variant: the probe's answer is not looked at
hasStagedChangesAlways(r) == ProbeExit(r) >= 0

\* execSync throws on a non-zero exit; the catch answers true
hasStagedChanges(r) == ProbeExit(r) # 0

BranchChars == LowerLetters \o UpperLetters \o Digits \o "-_"

BranchCharSet == CharsOf(BranchChars)

IsBranchChar(c) == c \in BranchCharSet

RECURSIVE StripFrom(_, _)
StripFrom(s, i) ==
  IF i > Len(s) THEN ""
  ELSE (IF IsBranchChar(Ch(s, i)) THEN Ch(s, i) ELSE "") \o StripFrom(s, i + 1)

RECURSIVE DashFrom(_, _)
DashFrom(s, i) ==
  IF i > Len(s) THEN ""
  ELSE (IF IsBranchChar(Ch(s, i)) THEN Ch(s, i) ELSE "-") \o DashFrom(s, i + 1)

\* variant: a character outside the class becomes a hyphen
sanitizeBranchNameWithDash(name) == DashFrom(name, 1)

\* params.name.replace(/[^a-z0-9\-_]/gi, '')
sanitizeBranchName(name) == StripFrom(name, 1)

RECURSIVE EscapeFrom(_, _)
EscapeFrom(s, i) ==
  IF i > Len(s) THEN ""
  ELSE (IF Ch(s, i) = "\"" THEN "\\\"" ELSE Ch(s, i)) \o EscapeFrom(s, i + 1)

\* params.message.replace(/"/g, '\\"')
escapeMessage(message) == EscapeFrom(message, 1)

Template(command, args) == Some([command |-> command, args |-> args])

ScriptTemplate(r, script, pnpmArgs, npmArgs) ==
  LET pm == packageManager(r)
  IN IF ~IsNull(pm) /\ r.manifest # "missing" /\ Truthy(getPackageScripts(r)[script])
     THEN Template(Val(pm), IF Val(pm) = "pnpm" THEN pnpmArgs ELSE npmArgs)
     ELSE Null

\* getCommandForIntent(intent, params, repoPath): a CommandTemplate or Null.
\* cwd is always repoPath and is left out of the template.
getCommandForIntent(i, p, r) ==
  CASE i = "RUN_TESTS" -> ScriptTemplate(r, "test", <<"test">>, <<"test">>)
    [] i = "RUN_LINT" -> ScriptTemplate(r, "lint", <<"lint">>, <<"run", "lint">>)
    [] i = "RUN_BUILD" -> ScriptTemplate(r, "build", <<"build">>, <<"run", "build">>)
    [] i = "GIT_STATUS" -> Template("git", <<"status", "--porcelain">>)
    [] i = "CREATE_BRANCH" ->
         IF ~Truthy(p.name) THEN Null
         ELSE LET branchName == sanitizeBranchName(Val(p.name))
              IN IF branchName = "" THEN Null
                 ELSE Template("git", <<"checkout", "-b", branchName>>)
    [] i = "MAKE_COMMIT" ->
         IF ~Truthy(p.message) THEN Null
         ELSE IF ~hasStagedChanges(r) THEN Null
         ELSE Template("git", <<"commit", "-m", escapeMessage(Val(p.message))>>)
    [] OTHER -> Null

-----------------------------------------------------------------------------
(* Lines of text *)

RECURSIVE SplitFrom(_, _, _)
SplitFrom(s, start, i) ==
  IF i > Len(s) THEN <<SubSeq(s, start, Len(s))>>
  ELSE IF Ch(s, i) = "\n" THEN <<SubSeq(s, start, i - 1)>> \o SplitFrom(s, i + 1, i + 1)
  ELSE SplitFrom(s, start, i + 1)

\* s.split('\n')
SplitLines(s) == SplitFrom(s, 1, 1)

RECURSIVE Join(_, _)
\* lines.join(sep)
Join(lines, sep) ==
  IF Len(lines) = 0 THEN ""
  ELSE IF Len(lines) = 1 THEN lines[1]
  ELSE lines[1] \o sep \o Join(Tail(lines), sep)

\* lines.filter(line => line.trim())
NonBlank(lines) == SelectSeq(lines, LAMBDA l : trim(l) # "")

\* lines.slice(0, n)
Take(lines, n) == SubSeq(lines, 1, IF Len(lines) < n THEN Len(lines) ELSE n)

\* lines.slice(0, n) for any integer n: a negative n counts from the end
Slice0(lines, n) ==
  IF n >= 0 THEN Take(lines, n) ELSE Take(lines, IF Len(lines) + n > 0 THEN Len(lines) + n ELSE 0)

\* lines.slice(-n)
TakeLast(lines, n) == SubSeq(lines, IF Len(lines) > n THEN Len(lines) - n + 1 ELSE 1, Len(lines))

\* a || b for strings
OrElse(a, b) == IF a # "" THEN a ELSE b

-----------------------------------------------------------------------------
(* Session Memory *)

createMemory ==
  [lastAction |-> Null, lastStdout |-> "", lastStderr |-> "", lastExitCode |-> 0,
   lastSummary |-> "", lastFailure |-> Null]

\* variant: a successful execution resets the failure context
updateMemoryClearing(m, i, res, sum) ==
  [lastAction |-> Some(i),
   lastStdout |-> res.stdout,
   lastStderr |-> res.stderr,
   lastExitCode |-> res.exitCode,
   lastSummary |-> sum,
   lastFailure |->
     IF ~res.success
     THEN Some([intent |-> i, stdout |-> res.stdout, stderr |-> res.stderr,
                exitCode |-> res.exitCode])
     ELSE <<>>]

\* variant: a failure is recorded only when the command wrote to stderr
updateMemoryOnStderr(m, i, res, sum) ==
  [lastAction |-> Some(i),
   lastStdout |-> res.stdout,
   lastStderr |-> res.stderr,
   lastExitCode |-> res.exitCode,
   lastSummary |-> sum,
   lastFailure |->
     IF res.stderr # ""
     THEN Some([intent |-> i, stdout |-> res.stdout, stderr |-> res.stderr,
                exitCode |-> res.exitCode])
     ELSE m.lastFailure]

updateMemory(m, i, res, sum) ==
  [lastAction |-> Some(i),
   lastStdout |-> res.stdout,
   lastStderr |-> res.stderr,
   lastExitCode |-> res.exitCode,
   lastSummary |-> sum,
   lastFailure |->
     IF ~res.success
     THEN Some([intent |-> i, stdout |-> res.stdout, stderr |-> res.stderr,
                exitCode |-> res.exitCode])
     ELSE m.lastFailure]

NoFailureText == "No failure recorded. Last command succeeded."

\* variant: stdout is rendered whenever it is non-empty
explainFailureFromStdout(m) ==
  IF IsNull(m.lastFailure) THEN NoFailureText
  ELSE LET f == Val(m.lastFailure)
           head == "Last failure was during " \o f.intent \o ". Exit code: "
                     \o ToString(f.exitCode) \o "."
       IN IF f.stdout # ""
          THEN head \o " Output: " \o Join(Take(NonBlank(SplitLines(f.stdout)), 3), ". ")
          ELSE IF f.stderr # ""
          THEN head \o " Error: " \o Join(Take(NonBlank(SplitLines(f.stderr)), 3), ". ")
          ELSE head

explainFailure(m) ==
  IF IsNull(m.lastFailure) THEN NoFailureText
  ELSE LET f == Val(m.lastFailure)
           head == "Last failure was during " \o f.intent \o ". Exit code: "
                     \o ToString(f.exitCode) \o "."
       IN IF f.stderr # ""
          THEN head \o " Error: " \o Join(Take(NonBlank(SplitLines(f.stderr)), 3), ". ")
          ELSE IF f.stdout # ""
          THEN head \o " Output: " \o Join(Take(NonBlank(SplitLines(f.stdout)), 3), ". ")
          ELSE head

NoActionText == "No previous action to show details for."

NoOutputText == "No output available from last action."

\* variant: the first 20 lines instead of the last 20
getDetailsFromStart(m) ==
  IF IsNull(m.lastAction) THEN NoActionText
  ELSE LET output == OrElse(m.lastStdout, m.lastStderr)
       IN IF output = "" THEN NoOutputText
          ELSE Join(Take(SplitLines(output), 20), "\n")

getDetails(m) ==
  IF IsNull(m.lastAction) THEN NoActionText
  ELSE LET output == OrElse(m.lastStdout, m.lastStderr)
       IN IF output = "" THEN NoOutputText
          ELSE Join(TakeLast(SplitLines(output), 20), "\n")

-----------------------------------------------------------------------------
(* Output Summarizer *)

DigitSet == CharsOf(Digits)

IsDigit(c) == c \in DigitSet

\* \s of a regular expression
IsWs(c) == IsSpace(c) \/ c = "\r"

RECURSIVE RunStart(_, _)
\* first position of the run of digits that ends at position j
RunStart(s, j) == IF j > 1 /\ IsDigit(Ch(s, j - 1)) THEN RunStart(s, j - 1) ELSE j

RECURSIVE CountFrom(_, _, _, _)
CountFrom(s, low, tail, q) ==
  IF q + Len(tail) - 1 > Len(s) THEN Null
  ELSE IF SubSeq(low, q, q + Len(tail) - 1) = tail /\ IsDigit(Ch(s, q - 1))
  THEN Some(SubSeq(s, RunStart(s, q - 1), q - 1))
  ELSE CountFrom(s, low, tail, q + 1)

\* output.match(/(\d+) <word>/i)?.[1]: the digits of the leftmost match, or Null
CountBefore(output, word) == CountFrom(output, toLowerCase(output), " " \o word, 2)

RECURSIVE WsEnd(_, _)
\* first position >= e that holds no white space
WsEnd(s, e) == IF e <= Len(s) /\ IsWs(Ch(s, e)) THEN WsEnd(s, e + 1) ELSE e

RECURSIVE LastInLine(_, _, _)
\* last position q in e+1..j with a character other than a newline, 0 if none
LastInLine(s, e, j) ==
  IF j <= e THEN 0 ELSE IF Ch(s, j) # "\n" THEN j ELSE LastInLine(s, e, j - 1)

\* where the group after \s+ starts when the marker ends before e (0: no match):
\* \s+ is greedy and gives characters back only when nothing follows the white space
GroupStart(s, e) ==
  LET w == WsEnd(s, e)
  IN IF w = e THEN 0 ELSE IF w <= Len(s) THEN w ELSE LastInLine(s, e, Len(s))

RECURSIVE LineEnd(_, _)
\* last position of the [^\n]+ that starts at g
LineEnd(s, g) == IF g < Len(s) /\ Ch(s, g + 1) # "\n" THEN LineEnd(s, g + 1) ELSE g

RECURSIVE MoreLines(_, _, _)
\* (?:\n[^\n]+){0,n} after position j
MoreLines(s, j, n) ==
  IF n > 0 /\ j + 2 <= Len(s) /\ Ch(s, j + 1) = "\n" /\ Ch(s, j + 2) # "\n"
  THEN MoreLines(s, LineEnd(s, j + 2), n - 1)
  ELSE j

MarkerLen(low, p, alts) ==
  LET hit == SelectSeq(alts, LAMBDA a : p + Len(a) - 1 <= Len(low) /\ SubSeq(low, p, p + Len(a) - 1) = a)
  IN IF Len(hit) = 0 THEN 0 ELSE Len(hit[1])

RECURSIVE MarkerFrom(_, _, _, _, _)
MarkerFrom(s, low, alts, more, p) ==
  IF p > Len(s) THEN Null
  ELSE LET n == MarkerLen(low, p, alts)
           g == IF n = 0 THEN 0 ELSE GroupStart(s, p + n)
       IN IF g > 0 THEN Some(SubSeq(s, g, MoreLines(s, LineEnd(s, g), more)))
          ELSE MarkerFrom(s, low, alts, more, p + 1)

\* output.match(/(?:alt1|alt2)\s+([^\n]+(?:\n[^\n]+){0,more})/i)?.[1]
\* (the markers of the source that are not ASCII never occur in ASCII output)
MarkerMatch(output, alts, more) == MarkerFrom(output, toLowerCase(output), alts, more, 1)

Plural(count) == IF count # "1" THEN "s" ELSE ""

OptOr(a, b) == IF Truthy(a) THEN a ELSE b

summarizeTests(res) ==
  IF ~res.success
  THEN LET output == res.stdout \o "\n" \o res.stderr
           failed == Val(OptOr(CountBefore(output, "failed"),
                           OptOr(CountBefore(output, "failing"), Some("some"))))
           passed == Val(OptOr(CountBefore(output, "passed"),
                           OptOr(CountBefore(output, "passing"), Some("0"))))
           errorMatch == MarkerMatch(output, <<"fail", "error">>, 0)
           errorLine == IF IsNull(errorMatch) THEN "" ELSE trim(Val(errorMatch))
           head == "Tests failed. " \o failed \o " test" \o Plural(failed) \o " failed, "
                     \o passed \o " passed."
       IN IF errorLine # "" THEN head \o " First failure: " \o errorLine ELSE head
  ELSE LET passCount == Val(OptOr(CountBefore(res.stdout, "passed"),
                              OptOr(CountBefore(res.stdout, "passing"), Some("all"))))
       IN "All tests passed. " \o passCount \o " test" \o Plural(passCount) \o " passed."

FirstError(res, alts) ==
  LET errorMatch == MarkerMatch(res.stdout \o "\n" \o res.stderr, alts, 3)
  IN IF IsNull(errorMatch) THEN Null ELSE Some(SplitLines(trim(Val(errorMatch)))[1])

summarizeLint(res) ==
  IF ~res.success
  THEN LET errorText == FirstError(res, <<"error", "warning">>)
       IN IF ~IsNull(errorText) THEN "Lint failed. First error: " \o Val(errorText)
          ELSE "Lint failed. Check output for details."
  ELSE "Lint passed. No issues found."

summarizeBuild(res) ==
  IF ~res.success
  THEN LET errorText == FirstError(res, <<"error", "failed">>)
       IN IF ~IsNull(errorText) THEN "Build failed. First error: " \o Val(errorText)
          ELSE "Build failed. Check output for details."
  ELSE LET output == toLowerCase(res.stdout)
       IN IF Includes(output, "success") \/ Includes(output, "built")
          THEN "Build succeeded."
          ELSE "Build completed successfully."

summarizeGeneric(res) ==
  IF ~res.success
  THEN "Command failed: "
         \o trim(SplitLines(OrElse(res.stderr, OrElse(res.stdout, "Unknown error")))[1])
  ELSE LET output == trim(res.stdout)
       IN IF output = "" THEN "Command completed successfully."
          ELSE Join(Take(SplitLines(output), 3), ". ")

\* line.substring(a - 1, b - 1) with 1-based a, clipped to the line
Substring(s, a, b) == SubSeq(s, IF a > Len(s) THEN Len(s) + 1 ELSE a, IF b > Len(s) THEN Len(s) ELSE b)

StatusOf(line) == Substring(line, 1, 2)

FileOf(line) == trim(Substring(line, 4, Len(line)))

IsUntracked(line) == Includes(StatusOf(line), "??")

IsModified(line) == ~IsUntracked(line) /\ trim(StatusOf(line)) # ""

\* modified.slice(0, 5) followed by untracked.slice(0, 5 - modified.length)
ListedFiles(modified, untracked) == Take(modified, 5) \o Slice0(untracked, 5 - Len(modified))

summarizeGitStatus(res) ==
  IF ~res.success THEN "Git status failed: " \o OrElse(res.stderr, "Unknown error")
  ELSE LET lines == NonBlank(SplitLines(res.stdout))
           modified == SelectSeq(lines, IsModified)
           untracked == SelectSeq(lines, IsUntracked)
           modCount == Len(modified)
           untrackedCount == Len(untracked)
           files == ListedFiles([k \in 1..modCount |-> FileOf(modified[k])],
                                [k \in 1..untrackedCount |-> FileOf(untracked[k])])
           counts == "Found " \o ToString(modCount) \o " modified file"
                       \o (IF modCount # 1 THEN "s" ELSE "")
                       \o (IF untrackedCount > 0
                           THEN " and " \o ToString(untrackedCount) \o " untracked file"
                                  \o (IF untrackedCount # 1 THEN "s" ELSE "")
                           ELSE "")
                       \o "."
       IN IF Len(lines) = 0 THEN "Working directory is clean. No changes."
          ELSE IF Len(files) = 0 THEN counts
          ELSE counts \o " Files: " \o Join(files, ", ")
                 \o (IF modCount + untrackedCount > 5
                     THEN " and " \o ToString(modCount + untrackedCount - 5) \o " more"
                     ELSE "")

\* variant: only the test summarizer is dispatched to
summarizeTestsOrGeneric(i, res) ==
  IF i = "RUN_TESTS" THEN summarizeTests(res) ELSE summarizeGeneric(res)

summarize(i, res) ==
  CASE i = "RUN_TESTS" -> summarizeTests(res)
    [] i = "GIT_STATUS" -> summarizeGitStatus(res)
    [] i = "RUN_LINT" -> summarizeLint(res)
    [] i = "RUN_BUILD" -> summarizeBuild(res)
    [] OTHER -> summarizeGeneric(res)

-----------------------------------------------------------------------------
(* Intent Classifier.  Confidence is counted in tenths: 10 is 1.0. *)

\* keywords.some(keyword => text.includes(keyword.toLowerCase()))
matches(text, keywords) == \E k \in keywords : Includes(text, toLowerCase(k))

At(s, k, p) == p >= 1 /\ p + Len(k) - 1 <= Len(s) /\ SubSeq(s, p, p + Len(k) - 1) = k

RECURSIVE BranchRunEnd(_, _)
\* last position of the [a-z0-9\-_]+ that starts at g
BranchRunEnd(s, g) ==
  IF g < Len(s) /\ IsBranchChar(Ch(s, g + 1)) THEN BranchRunEnd(s, g + 1) ELSE g

BranchCharAt(s, q) == q <= Len(s) /\ IsBranchChar(Ch(s, q))

\* where ([a-z0-9\-_]+) starts after (?:called |named )? tried at e, 0 if nowhere
BranchGroupAt(s, e) ==
  IF At(s, "called ", e) /\ BranchCharAt(s, e + 7) THEN e + 7
  ELSE IF At(s, "named ", e) /\ BranchCharAt(s, e + 6) THEN e + 6
  ELSE IF BranchCharAt(s, e) THEN e
  ELSE 0

RECURSIVE BranchAfter(_, _, _)
\* s.match(/<lead>(?:called |named )?([a-z0-9\-_]+)/i)?.[1], searched from p
BranchAfter(s, lead, p) ==
  IF p > Len(s) THEN Null
  ELSE LET g == IF At(s, lead, p) THEN BranchGroupAt(s, p + Len(lead)) ELSE 0
       IN IF g > 0 THEN Some(SubSeq(s, g, BranchRunEnd(s, g)))
          ELSE BranchAfter(s, lead, p + 1)

RECURSIVE BranchBefore(_, _)
\* s.match(/([a-z0-9\-_]+) branch/i)?.[1], searched from p
BranchBefore(s, p) ==
  IF p > Len(s) THEN Null
  ELSE IF BranchCharAt(s, p) /\ At(s, " branch", BranchRunEnd(s, p) + 1)
  THEN Some(SubSeq(s, p, BranchRunEnd(s, p)))
  ELSE BranchBefore(s, p + 1)

extractBranchName(text) ==
  LET first == BranchAfter(text, "branch ", 1)
  IN IF ~IsNull(first) THEN first ELSE BranchBefore(text, 1)

IsQuote(c) == c = "\"" \/ c = "'"

PlainCharAt(s, q) == q <= Len(s) /\ ~IsQuote(Ch(s, q))

RECURSIVE PlainRunEnd(_, _)
\* last position of the [^"']+ that starts at g
PlainRunEnd(s, g) == IF PlainCharAt(s, g + 1) THEN PlainRunEnd(s, g + 1) ELSE g

\* where ["']?([^"']+) puts its group when tried at q, 0 if it does not match
QuotedAt(s, q) ==
  IF q <= Len(s) /\ IsQuote(Ch(s, q)) /\ PlainCharAt(s, q + 1) THEN q + 1
  ELSE IF PlainCharAt(s, q) THEN q
  ELSE 0

\* (?:with message |message )?["']?([^"']+) tried at e
MessageGroupAt(s, e) ==
  IF At(s, "with message ", e) /\ QuotedAt(s, e + 13) > 0 THEN QuotedAt(s, e + 13)
  ELSE IF At(s, "message ", e) /\ QuotedAt(s, e + 8) > 0 THEN QuotedAt(s, e + 8)
  ELSE QuotedAt(s, e)

RECURSIVE CommitFrom(_, _)
\* s.match(/commit (?:with message |message )?["']?([^"']+)["']?/i)?.[1]
CommitFrom(s, p) ==
  IF p > Len(s) THEN Null
  ELSE LET g == IF At(s, "commit ", p) THEN MessageGroupAt(s, p + 7) ELSE 0
       IN IF g > 0 THEN Some(SubSeq(s, g, PlainRunEnd(s, g))) ELSE CommitFrom(s, p + 1)

RECURSIVE MessageFrom(_, _)
\* s.match(/message ["']?([^"']+)["']?/i)?.[1]
MessageFrom(s, p) ==
  IF p > Len(s) THEN Null
  ELSE LET g == IF At(s, "message ", p) THEN QuotedAt(s, p + 8) ELSE 0
       IN IF g > 0 THEN Some(SubSeq(s, g, PlainRunEnd(s, g))) ELSE MessageFrom(s, p + 1)

extractCommitMessage(text) ==
  LET first == CommitFrom(text, 1)
      second == MessageFrom(text, 1)
  IN IF ~IsNull(first) THEN Some(trim(Val(first)))
     ELSE IF ~IsNull(second) THEN Some(trim(Val(second)))
     ELSE Null

IntentResult(i, p, c) == [intent |-> i, params |-> p, confidence |-> c]

\* variant: the HELP rule is tested before the EXIT rule
routeIntentHelpFirst(text) ==
  LET normalized == trim(toLowerCase(text))
      branchMatch == BranchAfter(normalized, "create branch ", 1)
      branchName == IF ~IsNull(branchMatch) THEN branchMatch ELSE extractBranchName(normalized)
      commitMatch == CommitFrom(normalized, 1)
      message == IF ~IsNull(commitMatch) THEN commitMatch ELSE extractCommitMessage(normalized)
  IN IF matches(normalized, {"help", "what can you do", "commands", "options"})
     THEN IntentResult("HELP", NoParams, 10)
     ELSE IF matches(normalized, {"exit", "quit", "stop", "bye", "goodbye"})
     THEN IntentResult("EXIT", NoParams, 10)
     ELSE IF matches(normalized, {"repeat", "say that again", "repeat last",
                                  "what did you say"})
     THEN IntentResult("REPEAT_LAST", NoParams, 10)
     ELSE IF matches(normalized, {"details", "more details", "show details", "tell me more",
                                  "explain more"})
     THEN IntentResult("DETAILS", NoParams, 10)
     ELSE IF matches(normalized, {"explain failure", "why did it fail", "what went wrong",
                                  "explain the error", "what failed"})
     THEN IntentResult("EXPLAIN_FAILURE", NoParams, 10)
     ELSE IF matches(normalized, {"run tests", "test", "tests", "run test suite",
                                  "execute tests"})
     THEN IntentResult("RUN_TESTS", NoParams, 9)
     ELSE IF matches(normalized, {"git status", "status", "git state", "what changed",
                                  "show changes", "check status"})
     THEN IntentResult("GIT_STATUS", NoParams, 9)
     ELSE IF matches(normalized, {"run lint", "lint", "check lint", "linter", "run linter"})
     THEN IntentResult("RUN_LINT", NoParams, 9)
     ELSE IF matches(normalized, {"run build", "build", "compile", "build project"})
     THEN IntentResult("RUN_BUILD", NoParams, 9)
     ELSE IF ~IsNull(branchMatch)
               \/ matches(normalized, {"create branch", "new branch", "make branch"})
     THEN IF Truthy(branchName)
          THEN IntentResult("CREATE_BRANCH", [NoParams EXCEPT !.name = branchName], 8)
          ELSE IntentResult("CREATE_BRANCH", NoParams, 7)
     ELSE IF ~IsNull(commitMatch)
               \/ matches(normalized, {"commit", "make commit", "create commit"})
     THEN IF Truthy(message)
          THEN IntentResult("MAKE_COMMIT", [NoParams EXCEPT !.message = message], 8)
          ELSE IntentResult("MAKE_COMMIT", NoParams, 7)
     ELSE IntentResult("UNKNOWN", NoParams, 0)

routeIntent(text) ==
  LET normalized == trim(toLowerCase(text))
      branchMatch == BranchAfter(normalized, "create branch ", 1)
      branchName == IF ~IsNull(branchMatch) THEN branchMatch ELSE extractBranchName(normalized)
      commitMatch == CommitFrom(normalized, 1)
      message == IF ~IsNull(commitMatch) THEN commitMatch ELSE extractCommitMessage(normalized)
  IN IF matches(normalized, {"exit", "quit", "stop", "bye", "goodbye"})
     THEN IntentResult("EXIT", NoParams, 10)
     ELSE IF matches(normalized, {"help", "what can you do", "commands", "options"})
     THEN IntentResult("HELP", NoParams, 10)
     ELSE IF matches(normalized, {"repeat", "say that again", "repeat last",
                                  "what did you say"})
     THEN IntentResult("REPEAT_LAST", NoParams, 10)
     ELSE IF matches(normalized, {"details", "more details", "show details", "tell me more",
                                  "explain more"})
     THEN IntentResult("DETAILS", NoParams, 10)
     ELSE IF matches(normalized, {"explain failure", "why did it fail", "what went wrong",
                                  "explain the error", "what failed"})
     THEN IntentResult("EXPLAIN_FAILURE", NoParams, 10)
     ELSE IF matches(normalized, {"run tests", "test", "tests", "run test suite",
                                  "execute tests"})
     THEN IntentResult("RUN_TESTS", NoParams, 9)
     ELSE IF matches(normalized, {"git status", "status", "git state", "what changed",
                                  "show changes", "check status"})
     THEN IntentResult("GIT_STATUS", NoParams, 9)
     ELSE IF matches(normalized, {"run lint", "lint", "check lint", "linter", "run linter"})
     THEN IntentResult("RUN_LINT", NoParams, 9)
     ELSE IF matches(normalized, {"run build", "build", "compile", "build project"})
     THEN IntentResult("RUN_BUILD", NoParams, 9)
     ELSE IF ~IsNull(branchMatch)
               \/ matches(normalized, {"create branch", "new branch", "make branch"})
     THEN IF Truthy(branchName)
          THEN IntentResult("CREATE_BRANCH", [NoParams EXCEPT !.name = branchName], 8)
          ELSE IntentResult("CREATE_BRANCH", NoParams, 7)
     ELSE IF ~IsNull(commitMatch)
               \/ matches(normalized, {"commit", "make commit", "create commit"})
     THEN IF Truthy(message)
          THEN IntentResult("MAKE_COMMIT", [NoParams EXCEPT !.message = message], 8)
          ELSE IntentResult("MAKE_COMMIT", NoParams, 7)
     ELSE IntentResult("UNKNOWN", NoParams, 0)

IsMutating(i) == i \in {"CREATE_BRANCH", "MAKE_COMMIT"}

\* variant: only a commit asks for confirmation
createPlanCommitOnly(intentResult) ==
  [intent |-> intentResult.intent,
   params |-> intentResult.params,
   requiresConfirmation |-> intentResult.intent = "MAKE_COMMIT"]

\* createPlan: the description is only printed and is left out
createPlan(intentResult) ==
  [intent |-> intentResult.intent,
   requiresConfirmation |-> IsMutating(intentResult.intent),
   params |-> IF IsMutating(intentResult.intent) THEN intentResult.params ELSE NoParams]

-----------------------------------------------------------------------------
(* Planner overlay *)

\* the fixed threshold 0.6, in tenths
ConfidenceThreshold == 6

AgentResult(i, p, e, c, q) ==
  [intent |-> i, params |-> p, explanation |-> e, confidence |-> c, clarifyingQuestion |-> q]

\* variant: the intent of the response is taken as it comes
validateIntentTrusting(intentString) == intentString

validateIntent(intentString) == IF intentString \in Intent THEN intentString ELSE "UNKNOWN"

\* Math.max(0, Math.min(1, parsed.confidence || 0.5)), in tenths
clampConfidence(c) ==
  LET given == IF IsNull(c) \/ Val(c) = 0 THEN 5 ELSE Val(c)
  IN IF given > 10 THEN 10 ELSE IF given < 0 THEN 0 ELSE given

\* openAIAgent once the response `parsed` has been received and parsed
openAIAgent(parsed) ==
  LET confidence == clampConfidence(parsed.confidence)
  IN IF confidence < ConfidenceThreshold /\ Truthy(parsed.clarifyingQuestion)
     THEN AgentResult("UNKNOWN", NoParams, Null, confidence, parsed.clarifyingQuestion)
     ELSE AgentResult(validateIntent(parsed.intent), parsed.params, parsed.explanation,
                      confidence, Null)

\* the explanation mockAgent builds from sessionMemory.lastFailure
mockExplanation(f) ==
  "The last command (" \o f.intent \o ") failed with exit code " \o ToString(f.exitCode)
    \o ". " \o OrElse(f.stderr, OrElse(f.stdout, "No additional error details available."))

mockAgentOf(intentResult, m) ==
  AgentResult(createPlan(intentResult).intent,
              createPlan(intentResult).params,
              IF intentResult.intent = "EXPLAIN_FAILURE" /\ ~IsNull(m.lastFailure)
              THEN Some(mockExplanation(Val(m.lastFailure)))
              ELSE Null,
              intentResult.confidence,
              Null)

mockAgent(userText, m) == mockAgentOf(routeIntent(userText), m)

\* variant: a failed request is answered with UNKNOWN instead of the classifier's result
planAndExplainGivingUp(userText, m, key, response) ==
  IF ~key THEN mockAgent(userText, m)
  ELSE IF response.fails THEN AgentResult("UNKNOWN", NoParams, Null, 0, Null)
  ELSE openAIAgent(response)

\* planAndExplain(userText, sessionMemory); `key` is OPENAI_API_KEY as read when the
\* module was loaded, `response` what the planner service does with the request
planAndExplain(userText, m, key, response) ==
  IF ~key THEN mockAgent(userText, m)
  ELSE IF response.fails THEN mockAgent(userText, m)
  ELSE openAIAgent(response)

-----------------------------------------------------------------------------
(* Execution collaborator *)

\* What the spawned process does: the first of its 'close' / 'error' events,
\* with the exit code (Null: ended by a signal) and the raw output collected so far.
Closed(code, out, err) == [first |-> "close", code |-> code, out |-> out, err |-> err]

SpawnError(message) == [first |-> "error", code |-> Null, out |-> "", err |-> message]

\* executeCommand(template) when the process behaves as `o`
executeCommand(o) ==
  IF o.first = "error"
  THEN [stdout |-> "", stderr |-> o.err, exitCode |-> 1, success |-> FALSE]
  ELSE LET exitCode == IF IsNull(o.code) THEN 1 ELSE Val(o.code)
       IN [stdout |-> trim(o.out), stderr |-> trim(o.err), exitCode |-> exitCode,
           success |-> exitCode = 0]

-----------------------------------------------------------------------------
(* Bounds and inputs of the session *)

MaxTurns == 2

Utterances ==
  {"Run tests", "git status", "run lint", "create branch called feature-x",
   "commit fix login", "commit", "help", "Exit", "repeat", "details",
   "why did it fail", "hello there", "run the tests and exit"}

FollowUps == {"Yes, proceed", "CONFIRM", "yesterday", "no", ""}

Repo(manifest, scripts, pnpmLock, npmLock, git) ==
  [manifest |-> manifest, scripts |-> scripts, pnpmLock |-> pnpmLock, npmLock |-> npmLock,
   git |-> git]

SessionRepos ==
  {Repo("parsed", [test |-> Some("jest"), lint |-> Some("eslint ."), build |-> Null],
        FALSE, TRUE, "staged"),
   Repo("missing", NoScripts, FALSE, FALSE, "notRepo")}

PlannerResponse(fails, i, c, q, e, p) ==
  [fails |-> fails, intent |-> i, confidence |-> c, clarifyingQuestion |-> q,
   explanation |-> e, params |-> p]

PlannerResponses ==
  {PlannerResponse(TRUE, "", Null, Null, Null, NoParams),
   PlannerResponse(FALSE, "GIT_STATUS", Some(9), Null, Null, NoParams),
   PlannerResponse(FALSE, "MAKE_COMMIT", Some(9), Null, Null,
                   [NoParams EXCEPT !.message = Some("fix \"login\"")]),
   PlannerResponse(FALSE, "CREATE_BRANCH", Null, Null, Null,
                   [NoParams EXCEPT !.name = Some("feature/auth!")]),
   PlannerResponse(FALSE, "RUN_TESTS", Some(3), Some("Which tests?"), Null, NoParams),
   PlannerResponse(FALSE, "DELETE_REPO", Some(9), Null, Null, NoParams),
   PlannerResponse(FALSE, "", Some(9), Null, Null, NoParams),
   PlannerResponse(FALSE, "EXPLAIN_FAILURE", Some(9), Null, Some("It failed."), NoParams)}

ProcessOutcomes ==
  {Closed(Some(0), " M a.txt\n?? b.txt\n", ""),
   Closed(Some(0), "", ""),
   Closed(Some(1), "Tests: 3 failed, 7 passed\n", "FAIL src/a.test.ts\n"),
   Closed(Null, "", ""),
   SpawnError("spawn ENOENT")}

\* what running `t` in repository `r` can do
OutcomesOf(t, r) ==
  IF t.command = "git" /\ r.git = "noGit" THEN {SpawnError("spawn ENOENT")}
  ELSE IF t.command = "git" /\ r.git = "notRepo"
  THEN {Closed(Some(128), "", "fatal: not a git repository\n")}
  ELSE ProcessOutcomes

\* the repository after `t` ran with result `res`
RepoAfter(r, t, res) ==
  IF t.args[1] = "commit" /\ res.success THEN [r EXCEPT !.git = "clean"] ELSE r

-----------------------------------------------------------------------------
(* chatMode and listenMode *)

NoResult == [stdout |-> "", stderr |-> "", exitCode |-> 0, success |-> TRUE]

\* observation of the session: the steps of the running turn, the memory as it was when
\* the turn began, the turns in which a template was last resolved and a follow-up
\* last confirmed, and what planAndExplain was given and returned in the running turn
NoLog ==
  [steps |-> <<>>, before |-> createMemory, resolvedAt |-> 0, confirmedAt |-> 0,
   agent |-> Null]

Step(name) == [log EXCEPT !.steps = Append(@, name)]

Did(name) == \E k \in 1..Len(log.steps) : log.steps[k] = name

\* the bindings of one loop iteration, before they are assigned
FreshLocals ==
  /\ transcription' = ""
  /\ intent' = "UNKNOWN"
  /\ params' = NoParams
  /\ requiresConfirmation' = FALSE
  /\ commandTemplate' = Null
  /\ confirmText' = ""
  /\ result' = NoResult
  /\ summary' = ""

Init ==
  /\ mode \in {"chat", "listen"}
  /\ useAgent \in BOOLEAN
  /\ apiKey \in BOOLEAN
  /\ repo \in SessionRepos
  /\ pc = "idle"
  /\ turn = 1
  /\ memory = createMemory
  /\ transcription = ""
  /\ intent = "UNKNOWN"
  /\ params = NoParams
  /\ requiresConfirmation = FALSE
  /\ commandTemplate = Null
  /\ confirmText = ""
  /\ result = NoResult
  /\ summary = ""
  /\ spoken = ""
  /\ log = NoLog

HelpText ==
  "Available commands: run tests, git status, run lint, run build, create branch, commit, explain failure, details, repeat, help, exit."

UnknownText == "I didn't understand that. Try saying \"help\" for available commands."

NothingStagedText == "Cannot commit: no staged changes. Please stage files first using git add."

NotAvailableText(i) == "Cannot execute " \o i \o ". Command not available or parameters missing."

ErrorText == "An error occurred"

\* safeSpeak(text, mute) never throws; `await speak(text, mute)` of listenMode may throw,
\* and its catch block ends the process
Say(text) ==
  \/ spoken' = text /\ pc' = "spoke"
  \/ mode = "listen" /\ spoken' = spoken /\ pc' = "crashed"

\* variant: the catch block is outside the loop
ThrowEndsSession == spoken' = spoken /\ pc' = "crashed"

\* a thrown error: chatMode's catch speaks and the loop goes on, listenMode's exits
Throw ==
  IF mode = "chat" THEN spoken' = ErrorText /\ pc' = "spoke"
  ELSE spoken' = spoken /\ pc' = "crashed"

\* variant: executeCommand is not awaited, the loop goes on to the next capture
CaptureWhileRunning ==
  /\ pc \in {"idle", "executed"} /\ turn <= MaxTurns
  /\ \E u \in Utterances : transcription' = u
  /\ pc' = "heard"
  /\ log' = Step("capture")
  /\ UNCHANGED <<mode, useAgent, apiKey, repo, turn, memory, intent, params,
                 requiresConfirmation, commandTemplate, confirmText, result, summary, spoken>>

\* Steps 1-3: push-to-talk, recording and transcription succeed
Capture ==
  /\ pc = "idle" /\ turn <= MaxTurns
  /\ \E u \in Utterances : transcription' = u
  /\ pc' = "heard"
  /\ log' = Step("capture")
  /\ UNCHANGED <<mode, useAgent, apiKey, repo, turn, memory, intent, params,
                 requiresConfirmation, commandTemplate, confirmText, result, summary, spoken>>

\* Steps 1-2 throw: waitForPushToTalk or recordAudio fails
RecordFails ==
  /\ pc = "idle" /\ turn <= MaxTurns
  /\ Throw
  /\ log' = Step("capture-failed")
  /\ UNCHANGED <<mode, useAgent, apiKey, repo, turn, memory, transcription, intent, params,
                 requiresConfirmation, commandTemplate, confirmText, result, summary>>

\* Step 3 throws: chatMode logs and continues without speaking, listenMode exits
TranscribeFails ==
  /\ pc = "idle" /\ turn <= MaxTurns
  /\ IF mode = "chat" THEN pc' = "spoke" ELSE pc' = "crashed"
  /\ log' = Step("transcribe-failed")
  /\ UNCHANGED <<mode, useAgent, apiKey, repo, turn, memory, transcription, intent, params,
                 requiresConfirmation, commandTemplate, confirmText, result, summary, spoken>>

\* Step 4, else branch: the keyword router
PlanWithRouter ==
  /\ pc = "heard" /\ ~(useAgent /\ apiKey)
  /\ LET plan == createPlan(routeIntent(transcription))
     IN /\ intent' = plan.intent
        /\ params' = plan.params
        /\ requiresConfirmation' = plan.requiresConfirmation
  /\ pc' = "planned"
  /\ transcription' = ""
  /\ log' = Step("plan")
  /\ UNCHANGED <<mode, useAgent, apiKey, repo, turn, memory, commandTemplate, confirmText,
                 result, summary, spoken>>

\* the step `name`, taken on what planAndExplain returned for `response`
Consulted(name, response, agentResult) ==
  [Step(name) EXCEPT !.agent = Some([response |-> response, result |-> agentResult])]

\* Step 4, then branch, once planAndExplain has returned agentResult
UseAgentResult(response, agentResult) ==
  IF agentResult.confidence < ConfidenceThreshold /\ Truthy(agentResult.clarifyingQuestion)
  THEN /\ Say("I'm not sure I understood. " \o Val(agentResult.clarifyingQuestion))
       /\ log' = Consulted("clarify", response, agentResult)
       /\ UNCHANGED <<intent, params, requiresConfirmation>>
  ELSE /\ intent' = agentResult.intent
       /\ params' = agentResult.params
       /\ requiresConfirmation' = IsMutating(agentResult.intent)
       /\ IF Truthy(agentResult.explanation) /\ agentResult.intent = "EXPLAIN_FAILURE"
          THEN /\ Say(Val(agentResult.explanation))
               /\ log' = Consulted("explain", response, agentResult)
          ELSE /\ pc' = "planned" /\ spoken' = spoken
               /\ log' = Consulted("plan", response, agentResult)

\* Step 4, then branch: the planner overlay
PlanWithAgent ==
  /\ pc = "heard" /\ useAgent /\ apiKey
  /\ \E response \in PlannerResponses :
       UseAgentResult(response, planAndExplain(transcription, memory, apiKey, response))
  /\ transcription' = ""
  /\ UNCHANGED <<mode, useAgent, apiKey, repo, turn, memory, commandTemplate, confirmText,
                 result, summary>>

\* everything a handler that only speaks leaves alone
OnlySpeaks ==
  UNCHANGED <<mode, useAgent, apiKey, repo, turn, memory, transcription, intent, params,
              requiresConfirmation, commandTemplate, confirmText, result, summary>>

\* variant: the EXIT branch ends with `continue`
ExitContinues ==
  /\ pc = "planned" /\ mode = "chat" /\ intent = "EXIT"
  /\ spoken' = "Goodbye!" /\ pc' = "spoke"
  /\ log' = Step("exit")
  /\ OnlySpeaks

\* chatMode: if (intent === Intent.EXIT) ... break
Exit ==
  /\ pc = "planned" /\ mode = "chat" /\ intent = "EXIT"
  /\ spoken' = "Goodbye!" /\ pc' = "exited"
  /\ log' = Step("exit")
  /\ OnlySpeaks

\* if (intent === Intent.HELP)
Help ==
  /\ pc = "planned" /\ intent = "HELP"
  /\ Say(HelpText)
  /\ log' = Step("help")
  /\ OnlySpeaks

\* variant: the raw output of the last action is repeated
RepeatLastOutput ==
  /\ pc = "planned" /\ mode = "chat" /\ intent = "REPEAT_LAST"
  /\ Say(IF memory.lastStdout # "" THEN memory.lastStdout
         ELSE "No previous summary to repeat.")
  /\ log' = Step("repeat")
  /\ OnlySpeaks

\* chatMode: if (intent === Intent.REPEAT_LAST)
RepeatLast ==
  /\ pc = "planned" /\ mode = "chat" /\ intent = "REPEAT_LAST"
  /\ Say(IF memory.lastSummary # "" THEN memory.lastSummary
         ELSE "No previous summary to repeat.")
  /\ log' = Step("repeat")
  /\ OnlySpeaks

\* chatMode: if (intent === Intent.EXPLAIN_FAILURE)
ExplainFailure ==
  /\ pc = "planned" /\ mode = "chat" /\ intent = "EXPLAIN_FAILURE"
  /\ Say(explainFailure(memory))
  /\ log' = Step("explain")
  /\ OnlySpeaks

\* chatMode: if (intent === Intent.DETAILS); speech is cut after 200 characters
Details ==
  /\ pc = "planned" /\ mode = "chat" /\ intent = "DETAILS"
  /\ LET details == getDetails(memory)
     IN Say("Details: " \o (IF Len(details) > 200 THEN SubSeq(details, 1, 200) \o "..."
                            ELSE details))
  /\ log' = Step("details")
  /\ OnlySpeaks

\* if (intent === Intent.UNKNOWN)
Unknown ==
  /\ pc = "planned" /\ intent = "UNKNOWN"
  /\ Say(UnknownText)
  /\ log' = Step("unknown")
  /\ OnlySpeaks

\* variant: the UNKNOWN branch is missing, so the turn falls through to Step 5
HandledInlineWithoutUnknown(m) ==
  IF m = "chat" THEN {"EXIT", "HELP", "REPEAT_LAST", "EXPLAIN_FAILURE", "DETAILS"}
  ELSE {"HELP"}

\* the intents a mode answers itself, before Step 5
HandledInline(m) ==
  IF m = "chat" THEN {"EXIT", "HELP", "REPEAT_LAST", "EXPLAIN_FAILURE", "DETAILS", "UNKNOWN"}
  ELSE {"HELP", "UNKNOWN"}

\* Step 5: getCommandForIntent, and the refusal branch
Resolve ==
  /\ pc = "planned" /\ intent \notin HandledInline(mode)
  /\ LET t == getCommandForIntent(intent, params, repo)
     IN /\ commandTemplate' = t
        /\ IF IsNull(t)
           THEN /\ Say(IF intent = "MAKE_COMMIT" THEN NothingStagedText
                       ELSE NotAvailableText(intent))
                /\ log' = [Step("refuse") EXCEPT !.resolvedAt = turn]
           ELSE /\ pc' = "resolved" /\ spoken' = spoken
                /\ log' = [Step("resolve") EXCEPT !.resolvedAt = turn]
  /\ UNCHANGED <<mode, useAgent, apiKey, repo, turn, memory, transcription, intent, params,
                 requiresConfirmation, confirmText, result, summary>>

\* Step 6, first half: the follow-up capture succeeds
CaptureFollowUp ==
  /\ pc = "resolved" /\ requiresConfirmation
  /\ \E f \in FollowUps : confirmText' = f
  /\ pc' = "followup"
  /\ log' = Step("followup")
  /\ UNCHANGED <<mode, useAgent, apiKey, repo, turn, memory, transcription, intent, params,
                 requiresConfirmation, commandTemplate, result, summary, spoken>>

\* variant: the follow-up capture has its own try/catch and the turn goes on to Step 7
FollowUpFailsOpen ==
  /\ pc = "resolved" /\ requiresConfirmation
  /\ pc' = "confirmed"
  /\ log' = Step("followup-failed")
  /\ UNCHANGED <<mode, useAgent, apiKey, repo, turn, memory, transcription, intent, params,
                 requiresConfirmation, commandTemplate, confirmText, result, summary, spoken>>

\* Step 6, first half: recording or transcribing the follow-up throws
FollowUpFails ==
  /\ pc = "resolved" /\ requiresConfirmation
  /\ Throw
  /\ log' = Step("followup-failed")
  /\ UNCHANGED <<mode, useAgent, apiKey, repo, turn, memory, transcription, intent, params,
                 requiresConfirmation, commandTemplate, confirmText, result, summary>>

\* variant: the follow-up cancels only when it says so
ConfirmsUnlessRefused(text) ==
  ~Includes(toLowerCase(text), "no") /\ ~Includes(toLowerCase(text), "cancel")

\* variant: the follow-up is searched as transcribed, without lower-casing
ConfirmsCaseSensitive(text) ==
  Includes(text, "confirm") \/ Includes(text, "proceed") \/ Includes(text, "yes")

\* the condition of `if (!normalized.includes('confirm') && ...)`, negated
Confirms(text) ==
  LET normalized == toLowerCase(text)
  IN Includes(normalized, "confirm") \/ Includes(normalized, "proceed")
       \/ Includes(normalized, "yes")

\* Step 6, second half: the confirmation decision
Gate ==
  /\ pc = "followup"
  /\ IF Confirms(confirmText)
     THEN /\ pc' = "confirmed" /\ spoken' = spoken
          /\ log' = [Step("confirm") EXCEPT !.confirmedAt = turn]
     ELSE /\ Say("Action cancelled.")
          /\ log' = Step("cancel")
  /\ UNCHANGED <<mode, useAgent, apiKey, repo, turn, memory, transcription, intent, params,
                 requiresConfirmation, commandTemplate, confirmText, result, summary>>

\* variant: a confirmation given earlier in the session still counts
ExecuteRemembering ==
  /\ \/ pc = "confirmed"
     \/ pc = "resolved" /\ (~requiresConfirmation \/ log.confirmedAt > 0)
  /\ \E o \in OutcomesOf(Val(commandTemplate), repo) :
       /\ result' = executeCommand(o)
       /\ repo' = RepoAfter(repo, Val(commandTemplate), executeCommand(o))
  /\ pc' = "executed"
  /\ log' = Step("execute")
  /\ UNCHANGED <<mode, useAgent, apiKey, turn, memory, transcription, intent, params,
                 requiresConfirmation, commandTemplate, confirmText, summary, spoken>>

\* Step 7: executeCommand(commandTemplate)
Execute ==
  /\ \/ pc = "confirmed"
     \/ pc = "resolved" /\ ~requiresConfirmation
  /\ \E o \in OutcomesOf(Val(commandTemplate), repo) :
       /\ result' = executeCommand(o)
       /\ repo' = RepoAfter(repo, Val(commandTemplate), executeCommand(o))
  /\ pc' = "executed"
  /\ log' = Step("execute")
  /\ UNCHANGED <<mode, useAgent, apiKey, turn, memory, transcription, intent, params,
                 requiresConfirmation, commandTemplate, confirmText, summary, spoken>>

\* chatMode Step 8: summarize, then updateMemory
UpdateMemory ==
  /\ pc = "executed" /\ mode = "chat"
  /\ summary' = summarize(intent, result)
  /\ memory' = updateMemory(memory, intent, result, summary')
  /\ pc' = "updated"
  /\ log' = Step("update")
  /\ UNCHANGED <<mode, useAgent, apiKey, repo, turn, transcription, intent, params,
                 requiresConfirmation, commandTemplate, confirmText, result, spoken>>

\* listenMode Step 8: summarize only
Summarize ==
  /\ pc = "executed" /\ mode = "listen"
  /\ summary' = summarize(intent, result)
  /\ pc' = "updated"
  /\ log' = Step("summarize")
  /\ UNCHANGED <<mode, useAgent, apiKey, repo, turn, memory, transcription, intent, params,
                 requiresConfirmation, commandTemplate, confirmText, result, spoken>>

\* Step 9: the summary is spoken
SpeakSummary ==
  /\ pc = "updated"
  /\ Say(summary)
  /\ log' = Step("speak")
  /\ OnlySpeaks

\* variant: the memory is created inside the loop
NextTurnFreshMemory ==
  /\ pc = "spoke" /\ mode = "chat"
  /\ pc' = "idle"
  /\ turn' = turn + 1
  /\ FreshLocals
  /\ spoken' = ""
  /\ memory' = createMemory
  /\ log' = [log EXCEPT !.steps = <<>>, !.before = createMemory, !.agent = Null]
  /\ UNCHANGED <<mode, useAgent, apiKey, repo>>

\* chatMode: `continue`, or the end of the loop body: the next iteration begins
NextTurn ==
  /\ pc = "spoke" /\ mode = "chat"
  /\ pc' = "idle"
  /\ turn' = turn + 1
  /\ FreshLocals
  /\ spoken' = ""
  /\ log' = [log EXCEPT !.steps = <<>>, !.before = memory, !.agent = Null]
  /\ UNCHANGED <<mode, useAgent, apiKey, repo, memory>>

\* listenMode: `return`
Return ==
  /\ pc = "spoke" /\ mode = "listen"
  /\ pc' = "done"
  /\ UNCHANGED <<mode, useAgent, apiKey, repo, turn, memory, transcription, intent, params,
                 requiresConfirmation, commandTemplate, confirmText, result, summary, spoken,
                 log>>

Next ==
  \/ Capture \/ RecordFails \/ TranscribeFails
  \/ PlanWithRouter \/ PlanWithAgent
  \/ Exit \/ Help \/ RepeatLast \/ ExplainFailure \/ Details \/ Unknown
  \/ Resolve \/ CaptureFollowUp \/ FollowUpFails \/ Gate
  \/ Execute \/ UpdateMemory \/ Summarize \/ SpeakSummary
  \/ NextTurn \/ Return

Spec == Init /\ [][Next]_vars

-----------------------------------------------------------------------------
(* The resolver on its own: getCommandForIntent applied to drawn inputs *)

NameInputs == {"feature/auth!", "feature-x", "Fix_Bug-2", "!!!", "", "-rf", "a b;c"}

MessageInputs == {"fix login", "say \"hi\"", "a\\\"b", "", "wip; rm -rf /", "$(whoami)"}

ResolveParams ==
  {[name |-> n, message |-> m] :
     n \in {Null} \cup {Some(x) : x \in NameInputs},
     m \in {Null} \cup {Some(x) : x \in MessageInputs}}

ScriptValues == {Null, Some(""), Some("run-it")}

GitStates == {"staged", "clean", "notRepo", "noGit"}

GitRepos == {Repo("missing", NoScripts, FALSE, FALSE, g) : g \in GitStates}

ManifestRepos ==
  {Repo(m, [test |-> t, lint |-> l, build |-> b], pl, nl, "clean") :
     m \in {"missing", "unparsable", "parsed"},
     t \in ScriptValues, l \in ScriptValues, b \in ScriptValues,
     pl \in BOOLEAN, nl \in BOOLEAN}

InitResolve ==
  /\ mode = "resolver"
  /\ useAgent = FALSE
  /\ apiKey = FALSE
  /\ \/ intent \in Intent /\ params \in ResolveParams /\ repo \in GitRepos
     \/ intent \in {"RUN_TESTS", "RUN_LINT", "RUN_BUILD"} /\ params = NoParams
          /\ repo \in ManifestRepos
  /\ pc = "input"
  /\ turn = 1
  /\ memory = createMemory
  /\ transcription = ""
  /\ requiresConfirmation = FALSE
  /\ commandTemplate = Null
  /\ confirmText = ""
  /\ result = NoResult
  /\ summary = ""
  /\ spoken = ""
  /\ log = NoLog

\* one call of getCommandForIntent(intent, params, repoPath)
ResolveCall ==
  /\ pc = "input"
  /\ commandTemplate' = getCommandForIntent(intent, params, repo)
  /\ pc' = "returned"
  /\ UNCHANGED <<mode, useAgent, apiKey, repo, turn, memory, transcription, intent, params,
                 requiresConfirmation, confirmText, result, summary, spoken, log>>

SpecResolve == InitResolve /\ [][ResolveCall]_vars

-----------------------------------------------------------------------------
(* Session memory on its own: any sequence of updateMemory calls *)

MaxCalls == 3

MemoryIntents == {"RUN_TESTS", "GIT_STATUS", "MAKE_COMMIT"}

InitMemory ==
  /\ mode = "memory"
  /\ useAgent = FALSE
  /\ apiKey = FALSE
  /\ repo \in {Repo("missing", NoScripts, FALSE, FALSE, "clean")}
  /\ pc = "calls"
  /\ turn = 1
  /\ memory = createMemory
  /\ transcription = ""
  /\ intent = "UNKNOWN"
  /\ params = NoParams
  /\ requiresConfirmation = FALSE
  /\ commandTemplate = Null
  /\ confirmText = ""
  /\ result = NoResult
  /\ summary = ""
  /\ spoken = ""
  /\ log = <<>>

\* one call updateMemory(memory, intent, result, summary); log keeps the calls made
UpdateCall ==
  /\ pc = "calls" /\ Len(log) < MaxCalls
  /\ \E i \in MemoryIntents, o \in ProcessOutcomes :
       LET res == executeCommand(o)
       IN /\ memory' = updateMemory(memory, i, res, summarize(i, res))
          /\ log' = Append(log, [intent |-> i, result |-> res, summary |-> summarize(i, res)])
  /\ UNCHANGED <<mode, useAgent, apiKey, repo, pc, turn, transcription, intent, params,
                 requiresConfirmation, commandTemplate, confirmText, result, summary, spoken>>

SpecMemory == InitMemory /\ [][UpdateCall]_vars

-----------------------------------------------------------------------------
(* The follow-up answers on their own: getDetails and explainFailure applied to the
   memory that a history of updateMemory calls leaves *)

MaxRecallCalls == 2

\* results to recall: 25 lines of stdout, no output at all, stdout and stderr, a long
\* stderr with blank lines, a failure that wrote to stdout only, a success that wrote to
\* stderr only, no exit code, and a spawn error
RecallOutcomes ==
  {Closed(Some(0), "1\n2\n3\n4\n5\n6\n7\n8\n9\n10\n11\n12\n13\n14\n15\n16\n17\n18\n19\n20\n21\n22\n23\n24\n25\n", ""),
   Closed(Some(0), "", ""),
   Closed(Some(1), "Tests: 3 failed, 7 passed\n", "FAIL src/a.test.ts\n"),
   Closed(Some(2), "", "error TS1\n\n   \nerror TS2\nerror TS3\nerror TS4\n"),
   Closed(Some(1), "lint: 2 problems\n\nsrc/a.ts\n", ""),
   Closed(Some(0), "", "warning: deprecated\n"),
   Closed(Null, "", ""),
   SpawnError("spawn ENOENT")}

\* one call updateMemory(memory, intent, result, summary); log keeps the calls made
RecallUpdate ==
  /\ pc = "calls" /\ Len(log) < MaxRecallCalls
  /\ \E i \in MemoryIntents, o \in RecallOutcomes :
       LET res == executeCommand(o)
       IN /\ memory' = updateMemory(memory, i, res, summarize(i, res))
          /\ log' = Append(log, [intent |-> i, result |-> res, summary |-> summarize(i, res)])
  /\ UNCHANGED <<mode, useAgent, apiKey, repo, pc, turn, transcription, intent, params,
                 requiresConfirmation, commandTemplate, confirmText, result, summary, spoken>>

\* one call getDetails(memory)
DetailsCall ==
  /\ pc = "calls"
  /\ spoken' = getDetails(memory)
  /\ intent' = "DETAILS"
  /\ pc' = "answered"
  /\ UNCHANGED <<mode, useAgent, apiKey, repo, turn, memory, transcription, params,
                 requiresConfirmation, commandTemplate, confirmText, result, summary, log>>

\* one call explainFailure(memory)
ExplainCall ==
  /\ pc = "calls"
  /\ spoken' = explainFailure(memory)
  /\ intent' = "EXPLAIN_FAILURE"
  /\ pc' = "answered"
  /\ UNCHANGED <<mode, useAgent, apiKey, repo, turn, memory, transcription, params,
                 requiresConfirmation, commandTemplate, confirmText, result, summary, log>>

SpecRecall == InitMemory /\ [][RecallUpdate \/ DetailsCall \/ ExplainCall]_vars

-----------------------------------------------------------------------------
(* One command run on its own: the handlers of executeCommand fire event by event on
   what the child process emits, then the result is summarized.  log keeps the events
   still to come, the events handled and the output collected so far; pc is "running"
   while the promise is pending. *)

MaxModified == 7

MaxUntracked == 2

\* `git status --porcelain` of m staged modifications and u untracked files
Porcelain(m, u) ==
  Join([k \in 1..m |-> "M  f" \o ToString(k) \o ".txt"]
         \o [k \in 1..u |-> "?? g" \o ToString(k) \o ".txt"], "\n") \o "\n"

\* what a child process emits: data on its pipes, then 'close' with its exit code (Null
\* when a signal ended it), or 'error' when it could not be spawned, with or without a
\* 'close' after it
RunBehaviours ==
  {<<[type |-> "stdout", data |-> Porcelain(m, u)], [type |-> "close", code |-> Some(0)]>> :
     m \in 0..MaxModified, u \in 0..MaxUntracked}
  \cup
  {<<[type |-> "stdout", data |-> " M a.txt\n"], [type |-> "stdout", data |-> "?? b.txt\n"],
     [type |-> "close", code |-> Some(0)]>>,
   <<[type |-> "stdout", data |-> "ok\n"], [type |-> "close", code |-> Some(0)]>>,
   <<[type |-> "stdout", data |-> "Tests: 3 failed, 7 passed\n"],
     [type |-> "stderr", data |-> "FAIL src/a.test.ts\n"], [type |-> "close", code |-> Some(1)]>>,
   <<[type |-> "stderr", data |-> "error TS2304: Cannot find name\n"],
     [type |-> "close", code |-> Some(2)]>>,
   <<[type |-> "stderr", data |-> "  \n"], [type |-> "close", code |-> Some(1)]>>,
   <<[type |-> "close", code |-> Some(1)]>>,
   <<[type |-> "stdout", data |-> "partial"], [type |-> "close", code |-> Null]>>,
   <<[type |-> "error", message |-> "spawn git ENOENT"]>>,
   <<[type |-> "error", message |-> "spawn npm ENOENT"], [type |-> "close", code |-> Some(-2)]>>}

InitRun ==
  /\ mode = "run"
  /\ useAgent = FALSE
  /\ apiKey = FALSE
  /\ repo \in {Repo("missing", NoScripts, FALSE, FALSE, "clean")}
  /\ pc = "running"
  /\ turn = 1
  /\ memory = createMemory
  /\ transcription = ""
  /\ intent \in {"RUN_TESTS", "GIT_STATUS", "RUN_LINT", "RUN_BUILD", "CREATE_BRANCH",
                 "MAKE_COMMIT"}
  /\ params = NoParams
  /\ requiresConfirmation = FALSE
  /\ commandTemplate = Null
  /\ confirmText = ""
  /\ result = NoResult
  /\ summary = ""
  /\ spoken = ""
  /\ \E b \in RunBehaviours : log = [pending |-> b, handled |-> <<>>, stdout |-> "", stderr |-> ""]

\* the event handled next
Event == Head(log.pending)

\* the event has been handled
Handled(l) == [l EXCEPT !.pending = Tail(@), !.handled = Append(@, Event)]

\* variant: a later resolve replaces the settled value
ResolvedAgain(value) == result' = value /\ pc' = "settled"

\* resolve(value): settles the promise if it is pending, and does nothing otherwise
Resolved(value) ==
  IF pc = "running" THEN result' = value /\ pc' = "settled"
  ELSE UNCHANGED <<result, pc>>

\* child.stdout.on('data') and child.stderr.on('data')
OnData ==
  /\ log.pending # <<>>
  /\ Event.type \in {"stdout", "stderr"}
  /\ log' = IF Event.type = "stdout" THEN [Handled(log) EXCEPT !.stdout = @ \o Event.data]
            ELSE [Handled(log) EXCEPT !.stderr = @ \o Event.data]
  /\ UNCHANGED <<mode, useAgent, apiKey, repo, pc, turn, memory, transcription, intent,
                 params, requiresConfirmation, commandTemplate, confirmText, result, summary,
                 spoken>>

\* child.on('close')
OnClose ==
  /\ log.pending # <<>>
  /\ Event.type = "close"
  /\ LET exitCode == IF IsNull(Event.code) THEN 1 ELSE Val(Event.code)
     IN Resolved([stdout |-> trim(log.stdout), stderr |-> trim(log.stderr),
                  exitCode |-> exitCode, success |-> exitCode = 0])
  /\ log' = Handled(log)
  /\ UNCHANGED <<mode, useAgent, apiKey, repo, turn, memory, transcription, intent, params,
                 requiresConfirmation, commandTemplate, confirmText, summary, spoken>>

\* child.on('error')
OnError ==
  /\ log.pending # <<>>
  /\ Event.type = "error"
  /\ Resolved([stdout |-> "", stderr |-> Event.message, exitCode |-> 1, success |-> FALSE])
  /\ log' = Handled(log)
  /\ UNCHANGED <<mode, useAgent, apiKey, repo, turn, memory, transcription, intent, params,
                 requiresConfirmation, commandTemplate, confirmText, summary, spoken>>

\* chatMode Step 8 on the awaited result: summarize(intent, result)
SummarizeCall ==
  /\ pc = "settled"
  /\ summary' = summarize(intent, result)
  /\ pc' = "summarized"
  /\ UNCHANGED <<mode, useAgent, apiKey, repo, turn, memory, transcription, intent, params,
                 requiresConfirmation, commandTemplate, confirmText, result, spoken, log>>

SpecRun == InitRun /\ [][OnData \/ OnClose \/ OnError \/ SummarizeCall]_vars

-----------------------------------------------------------------------------
(* recordAudio (FFmpeg) on its own: the promise, its `settled` flag and its two timers,
   driven by the events of the ffmpeg process.  pc is the state of the promise; log holds
   the locals of the executor and what was observed: the calls of resolve and reject, the
   signals sent and the state of the process. *)

MaxChunks == 1

OutputPath == "/tmp/devvoice.wav"

\* the message of a spawn 'error'
SpawnMessages == {"spawn ffmpeg ENOENT", "EACCES"}

\* exit codes of 'close': success, failure, and none when a signal ended the process
CloseCodes == {Some(0), Some(1), Null}

InitRecord ==
  /\ mode = "record"
  /\ useAgent = FALSE
  /\ apiKey = FALSE
  /\ repo \in {Repo("missing", NoScripts, FALSE, FALSE, "clean")}
  /\ pc = "pending"
  /\ turn = 1
  /\ memory = createMemory
  /\ transcription = ""
  /\ intent = "UNKNOWN"
  /\ params = NoParams
  /\ requiresConfirmation = FALSE
  /\ commandTemplate = Null
  /\ confirmText = ""
  /\ result = NoResult
  /\ summary = ""
  /\ spoken = ""
  /\ \E d \in {5, 8} :
       log = [durationSeconds |-> d, settled |-> FALSE, timeoutHandle |-> "set",
              killTimer |-> "none", stderrOutput |-> "", chunks |-> 0, process |-> "running",
              killed |-> FALSE, signals |-> <<>>, calls |-> <<>>, events |-> <<>>]

\* resolve(value) / reject(error): the first call settles the promise, `spoken` is its
\* value or the message of its error
Settled(l, kind, value) ==
  /\ log' = [l EXCEPT !.calls = Append(@, kind)]
  /\ IF pc = "pending"
     THEN pc' = (IF kind = "resolve" THEN "resolved" ELSE "rejected") /\ spoken' = value
     ELSE UNCHANGED <<pc, spoken>>

\* stderrOutput.slice(-n)
LastChars(text, n) == SubSeq(text, IF Len(text) > n THEN Len(text) - n + 1 ELSE 1, Len(text))

\* ffmpeg.stderr.on('data')
FfmpegData ==
  /\ log.process = "running" /\ log.chunks < MaxChunks
  /\ \E data \in {"Input/output error\n", "alsa: device busy\n"} :
       log' = [log EXCEPT !.stderrOutput = @ \o data, !.chunks = @ + 1]
  /\ UNCHANGED <<mode, useAgent, apiKey, repo, pc, turn, memory, transcription, intent,
                 params, requiresConfirmation, commandTemplate, confirmText, result, summary,
                 spoken>>

\* ffmpeg.on('error')
FfmpegError ==
  /\ log.process = "running"
  /\ \E message \in SpawnMessages :
       LET l == [log EXCEPT !.process = "errored",
                            !.events = Append(@, [type |-> "error", code |-> Null])]
       IN IF ~log.settled
          THEN Settled([l EXCEPT !.settled = TRUE, !.timeoutHandle = "cleared"], "reject",
                       "Failed to start audio recording. "
                         \o (IF Includes(message, "ENOENT") \/ Includes(message, "spawn")
                             THEN "FFmpeg not found. Please install FFmpeg and ensure it is in your PATH."
                             ELSE message))
          ELSE log' = l /\ UNCHANGED <<pc, spoken>>
  /\ UNCHANGED <<mode, useAgent, apiKey, repo, turn, memory, transcription, intent, params,
                 requiresConfirmation, commandTemplate, confirmText, result, summary>>

\* variant: 'close' leaves the safety timeout pending
FfmpegCloseKeepsTimer ==
  /\ log.process \in {"running", "errored"}
  /\ \E code \in CloseCodes :
       LET l == [log EXCEPT !.process = "closed",
                            !.events = Append(@, [type |-> "close", code |-> code])]
       IN IF ~log.settled
          THEN IF code = Some(0)
               THEN Settled([l EXCEPT !.settled = TRUE], "resolve", OutputPath)
               ELSE Settled([l EXCEPT !.settled = TRUE], "reject",
                            "FFmpeg recording failed with exit code "
                              \o (IF IsNull(code) THEN "null" ELSE ToString(Val(code))) \o ". "
                              \o (IF log.stderrOutput # ""
                                  THEN "Error: " \o LastChars(log.stderrOutput, 500)
                                  ELSE "No error details available."))
          ELSE log' = l /\ UNCHANGED <<pc, spoken>>
  /\ UNCHANGED <<mode, useAgent, apiKey, repo, turn, memory, transcription, intent, params,
                 requiresConfirmation, commandTemplate, confirmText, result, summary>>

\* ffmpeg.on('close')
FfmpegClose ==
  /\ log.process \in {"running", "errored"}
  /\ \E code \in CloseCodes :
       LET l == [log EXCEPT !.process = "closed",
                            !.events = Append(@, [type |-> "close", code |-> code]),
                            !.timeoutHandle = "cleared"]
       IN IF ~log.settled
          THEN IF code = Some(0)
               THEN Settled([l EXCEPT !.settled = TRUE], "resolve", OutputPath)
               ELSE Settled([l EXCEPT !.settled = TRUE], "reject",
                            "FFmpeg recording failed with exit code "
                              \o (IF IsNull(code) THEN "null" ELSE ToString(Val(code))) \o ". "
                              \o (IF log.stderrOutput # ""
                                  THEN "Error: " \o LastChars(log.stderrOutput, 500)
                                  ELSE "No error details available."))
          ELSE log' = l /\ UNCHANGED <<pc, spoken>>
  /\ UNCHANGED <<mode, useAgent, apiKey, repo, turn, memory, transcription, intent, params,
                 requiresConfirmation, commandTemplate, confirmText, result, summary>>

\* the safety timeout of (durationSeconds + 2) seconds; ffmpeg.kill reports whether the
\* signal was sent
SafetyTimeout ==
  /\ log.timeoutHandle = "set"
  /\ \E sent \in BOOLEAN :
       LET l == [log EXCEPT !.timeoutHandle = "fired",
                            !.events = Append(@, [type |-> "timeout", code |-> Null])]
       IN IF ~log.settled
          THEN Settled([l EXCEPT !.settled = TRUE, !.killTimer = "armed",
                                 !.signals = Append(@, "SIGTERM"), !.killed = sent],
                       "reject",
                       "Recording timeout after " \o ToString(log.durationSeconds + 2)
                         \o " seconds. FFmpeg process did not exit in time. "
                         \o (IF log.stderrOutput # ""
                             THEN "Last output: " \o LastChars(log.stderrOutput, 200)
                             ELSE ""))
          ELSE log' = l /\ UNCHANGED <<pc, spoken>>
  /\ UNCHANGED <<mode, useAgent, apiKey, repo, turn, memory, transcription, intent, params,
                 requiresConfirmation, commandTemplate, confirmText, result, summary>>

\* the 500 ms timer inside the timeout: SIGKILL if no signal has been sent
ForceKill ==
  /\ log.killTimer = "armed"
  /\ \E sent \in BOOLEAN :
       log' = IF ~log.killed
              THEN [log EXCEPT !.killTimer = "fired", !.signals = Append(@, "SIGKILL"),
                               !.killed = sent]
              ELSE [log EXCEPT !.killTimer = "fired"]
  /\ UNCHANGED <<mode, useAgent, apiKey, repo, pc, turn, memory, transcription, intent,
                 params, requiresConfirmation, commandTemplate, confirmText, result, summary,
                 spoken>>

\* a timer that is set fires
SpecRecord ==
  /\ InitRecord
  /\ [][FfmpegData \/ FfmpegError \/ FfmpegClose \/ SafetyTimeout \/ ForceKill]_vars
  /\ WF_vars(SafetyTimeout)

-----------------------------------------------------------------------------
(* The classifier on its own: routeIntent applied to drawn utterances *)

\* one phrase of each rule of routeIntent
RulePhrases ==
  {"exit", "help", "repeat", "details", "what failed", "run tests", "git status", "lint",
   "build", "create branch", "commit"}

SpokenNames == {"feature-x", "fix_2", "Hotfix", "test-fix", "rebuild"}

SpokenMessages == {"add user authentication", "Fix login", "fix the tests", "don't panic"}

RouteUtterances ==
  RulePhrases
    \cup {a \o " " \o b : a \in RulePhrases, b \in RulePhrases}
    \cup {"new branch", "make branch", "create a commit", "hello there", ""}
    \cup {"create branch " \o n : n \in SpokenNames}
    \cup {"commit " \o m : m \in SpokenMessages}

InitRoute ==
  /\ mode = "router"
  /\ useAgent = FALSE
  /\ apiKey = FALSE
  /\ repo \in {Repo("missing", NoScripts, FALSE, FALSE, "clean")}
  /\ pc = "input"
  /\ turn = 1
  /\ memory = createMemory
  /\ transcription \in RouteUtterances
  /\ intent = "UNKNOWN"
  /\ params = NoParams
  /\ requiresConfirmation = FALSE
  /\ commandTemplate = Null
  /\ confirmText = ""
  /\ result = IntentResult("UNKNOWN", NoParams, 0)
  /\ summary = ""
  /\ spoken = ""
  /\ log = NoLog

\* one call of routeIntent(transcription); result keeps what it returned
RouteCall ==
  /\ pc = "input"
  /\ result' = routeIntent(transcription)
  /\ intent' = result'.intent
  /\ params' = result'.params
  /\ pc' = "routed"
  /\ UNCHANGED <<mode, useAgent, apiKey, repo, turn, memory, transcription,
                 requiresConfirmation, commandTemplate, confirmText, summary, spoken, log>>

SpecRoute == InitRoute /\ [][RouteCall]_vars

-----------------------------------------------------------------------------
(* Properties *)

\* position of the first step `name` of the running turn, 0 if it has not happened
StepAt(name) ==
  IF Did(name) THEN CHOOSE k \in 1..Len(log.steps) :
                      log.steps[k] = name /\ \A j \in 1..(k - 1) : log.steps[j] # name
  ELSE 0

\* text contains "confirm", "proceed" or "yes" once lower-cased
HasAffirmation(text) ==
  \E w \in {"confirm", "proceed", "yes"} :
    \E k \in 1..Len(text) : At(toLowerCase(text), w, k)

MutatingTemplate(t) == ~IsNull(t) /\ Val(t).args[1] \in {"checkout", "commit"}

\* C1: in both modes a CREATE_BRANCH or MAKE_COMMIT template reaches executeCommand only
\* from a turn whose own follow-up held "confirm", "proceed" or "yes"; a follow-up with
\* none of them ends the turn as cancelled, with nothing executed and memory untouched.
C1_ConfirmedBeforeExecute ==
  [][/\ (pc' = "executed" /\ pc # "executed" /\ MutatingTemplate(commandTemplate))
          => (pc = "confirmed" /\ Did("followup") /\ HasAffirmation(confirmText))
     /\ (pc = "followup" /\ ~HasAffirmation(confirmText))
          => /\ pc' \in {"spoke", "crashed"}
             /\ pc' = "spoke" => spoken' = "Action cancelled."
             /\ memory' = memory /\ memory = log.before
             /\ result' = NoResult
             /\ ~(\E k \in 1..Len(log'.steps) : log'.steps[k] = "execute")]_vars

C1_Witness == pc = "executed" /\ MutatingTemplate(commandTemplate) /\ Did("confirm")

\* the templates of the whitelist
WhitelistShape(t) ==
  /\ t.command \in {"pnpm", "npm", "git"}
  /\ \/ t.args \in {<<"test">>, <<"lint">>, <<"run", "lint">>, <<"build">>,
                    <<"run", "build">>, <<"status", "--porcelain">>}
     \/ Len(t.args) = 3 /\ t.args[1] = "checkout" /\ t.args[2] = "-b"
     \/ Len(t.args) = 3 /\ t.args[1] = "commit" /\ t.args[2] = "-m"

ResolvableIntents ==
  {"RUN_TESTS", "RUN_LINT", "RUN_BUILD", "GIT_STATUS", "CREATE_BRANCH", "MAKE_COMMIT"}

\* C2: every template getCommandForIntent returns has a whitelisted command and argument
\* shape, and every intent outside the six resolvable ones is refused.
C2_WhitelistOnly ==
  pc = "returned" =>
    /\ ~IsNull(commandTemplate) => WhitelistShape(Val(commandTemplate))
    /\ intent \notin ResolvableIntents => IsNull(commandTemplate)

C2_Witness ==
  /\ pc = "returned" /\ intent = "RUN_LINT"
  /\ commandTemplate = Template("npm", <<"run", "lint">>)

\* C3: MAKE_COMMIT is refused whenever the probe reports no staged changes, whatever the
\* message, and resolving leaves the repository as it was.
C3_RefusesWithoutStagedChanges ==
  /\ [](pc = "returned" /\ intent = "MAKE_COMMIT" /\ repo.git = "clean"
          => IsNull(commandTemplate))
  /\ [][repo' = repo]_vars

C3_Witness ==
  /\ pc = "returned" /\ intent = "MAKE_COMMIT" /\ repo.git = "clean"
  /\ params.message = Some("say \"hi\"") /\ IsNull(commandTemplate)

\* C4: a `git commit -m` template is returned only if `message` is present and the
\* repository has a staged change when it is resolved, for every state of the repository.
C4_CommitOnlyWithStagedChanges ==
  pc = "returned" /\ ~IsNull(commandTemplate) /\ Val(commandTemplate).args[1] = "commit"
    => Truthy(params.message) /\ repo.git = "staged"

NameClass == CharsOf("abcdefghijklmnopqrstuvwxyzABCDEFGHIJKLMNOPQRSTUVWXYZ0123456789_-")

\* positions of `name` that hold a character of [A-Za-z0-9_-]
KeptPositions(name) == {k \in 1..Len(name) : Ch(name, k) \in NameClass}

\* `kept` is `name` without the characters outside [A-Za-z0-9_-], order preserved
IsNameKept(kept, name) ==
  /\ Len(kept) = Cardinality(KeptPositions(name))
  /\ \A k \in KeptPositions(name) :
       Ch(kept, Cardinality({j \in KeptPositions(name) : j <= k})) = Ch(name, k)

\* C5: CREATE_BRANCH puts after `-b` exactly the characters of `name` that are in
\* [A-Za-z0-9_-], in their order, and refuses a missing name or an empty sanitized name.
C5_BranchNameSanitized ==
  pc = "returned" /\ intent = "CREATE_BRANCH" =>
    IF IsNull(params.name) \/ KeptPositions(Val(params.name)) = {}
    THEN IsNull(commandTemplate)
    ELSE /\ ~IsNull(commandTemplate)
         /\ Val(commandTemplate).command = "git"
         /\ SubSeq(Val(commandTemplate).args, 1, 2) = <<"checkout", "-b">>
         /\ Len(Val(commandTemplate).args) = 3
         /\ IsNameKept(Val(commandTemplate).args[3], Val(params.name))

C5_Witness ==
  /\ pc = "returned" /\ intent = "CREATE_BRANCH" /\ params.name = Some("feature/auth!")
  /\ commandTemplate = Template("git", <<"checkout", "-b", "featureauth">>)

RECURSIVE BackslashesBefore(_, _)
\* length of the run of backslashes that ends just before position k
BackslashesBefore(s, k) ==
  IF k > 1 /\ Ch(s, k - 1) = "\\" THEN 1 + BackslashesBefore(s, k - 1) ELSE 0

\* every double quote of s is escaped: an odd number of backslashes stands before it
QuotesEscaped(s) ==
  \A k \in 1..Len(s) : Ch(s, k) = "\"" => BackslashesBefore(s, k) % 2 = 1

\* C6: the executable and each argument are separate tokens, a branch name holds only
\* [A-Za-z0-9_-], and every double quote of a commit message is escaped.
C6_NoUnescapedInput ==
  pc = "returned" /\ ~IsNull(commandTemplate) =>
    LET t == Val(commandTemplate)
    IN /\ WhitelistShape(t)
       /\ t.args[1] = "checkout" => \A k \in 1..Len(t.args[3]) : Ch(t.args[3], k) \in NameClass
       /\ t.args[1] = "commit" => QuotesEscaped(t.args[3])

RECURSIVE LastFailing(_)
\* the failure record of the latest failing call of history h, Null if none failed
LastFailing(h) ==
  IF Len(h) = 0 THEN Null
  ELSE LET e == h[Len(h)]
       IN IF ~e.result.success
          THEN Some([intent |-> e.intent, stdout |-> e.result.stdout,
                     stderr |-> e.result.stderr, exitCode |-> e.result.exitCode])
          ELSE LastFailing(SubSeq(h, 1, Len(h) - 1))

\* C7: after any sequence of updateMemory calls the last* fields are those of the latest
\* call and lastFailure is the record of the latest failing call, or empty if none failed;
\* explainFailure names the intent of that failing call.
C7_MemoryTracksHistory ==
  pc = "calls" =>
    /\ Len(log) = 0 => memory = createMemory
    /\ Len(log) > 0 =>
         LET e == log[Len(log)]
         IN /\ memory.lastAction = Some(e.intent)
            /\ memory.lastStdout = e.result.stdout
            /\ memory.lastStderr = e.result.stderr
            /\ memory.lastExitCode = e.result.exitCode
            /\ memory.lastSummary = e.summary
    /\ memory.lastFailure = LastFailing(log)
    /\ IF IsNull(LastFailing(log)) THEN explainFailure(memory) = NoFailureText
       ELSE Includes(explainFailure(memory),
                     "Last failure was during " \o Val(LastFailing(log)).intent \o ".")

C7_Witness ==
  /\ pc = "calls" /\ Len(log) = 2
  /\ ~log[1].result.success /\ log[2].result.success /\ log[1].intent # log[2].intent
  /\ memory.lastAction = Some(log[2].intent)
  /\ ~IsNull(memory.lastFailure) /\ Val(memory.lastFailure).intent = log[1].intent

\* number of steps `name` in the running turn
StepCount(name) == Cardinality({k \in 1..Len(log.steps) : log.steps[k] = name})

\* C8: in a chat session the memory changes only in the step between summarizing an
\* execution and speaking the summary, once per executed command, and a turn that executes
\* nothing leaves the memory as it found it.
C8_MemoryOncePerExecution ==
  /\ [][memory' # memory =>
          /\ mode = "chat" /\ pc = "executed" /\ pc' = "updated"
          /\ summary' = summarize(intent, result)
          /\ memory' = updateMemory(memory, intent, result, summary')
          /\ ~Did("speak") /\ ~Did("update")]_vars
  /\ [](mode = "chat" =>
          /\ StepCount("update") <= 1
          /\ ~Did("execute") => memory = log.before
          /\ Did("speak") /\ Did("execute") =>
               /\ StepCount("update") = 1
               /\ StepAt("execute") < StepAt("update") /\ StepAt("update") < StepAt("speak")
               /\ memory = updateMemory(log.before, intent, result, summary))

C8_Witness ==
  /\ mode = "chat" /\ turn = 2 /\ pc = "spoke"
  /\ Did("cancel") /\ ~Did("execute")
  /\ memory # createMemory /\ memory = log.before

\* C9 as stated: for a mutating intent the resolver runs in a turn only after the gate
\* has reached Confirmed in that turn.
C9_ConfirmBeforeResolve ==
  IsMutating(intent) =>
    /\ Did("resolve") => Did("confirm") /\ StepAt("confirm") < StepAt("resolve")
    /\ Did("refuse") => Did("confirm") /\ StepAt("confirm") < StepAt("refuse")

\* C9: for a mutating intent the resolver, staged-change probe included, runs before the
\* follow-up is captured, and the command is executed only after the gate has reached
\* Confirmed in that turn: classify -> resolve -> confirm -> execute.
C9_ResolveThenConfirmThenExecute ==
  IsMutating(intent) =>
    /\ Did("followup") =>
         /\ Did("resolve") /\ StepAt("plan") < StepAt("resolve")
         /\ StepAt("resolve") < StepAt("followup")
    /\ Did("confirm") => StepAt("followup") < StepAt("confirm")
    /\ Did("execute") => Did("confirm") /\ StepAt("confirm") < StepAt("execute")
    /\ Did("refuse") => ~Did("followup") /\ ~Did("execute")

C9_Witness ==
  /\ pc = "executed" /\ intent = "MAKE_COMMIT"
  /\ log.steps = <<"capture", "plan", "resolve", "followup", "confirm", "execute">>

\* C10: a mutating command is executed only in a turn that resolved its template, captured
\* its own follow-up and confirmed it; each turn starts with no template and no follow-up.
C10_ConfirmationPerTurn ==
  /\ [](pc = "executed" /\ IsMutating(intent) =>
          /\ log.confirmedAt = turn /\ log.resolvedAt = turn
          /\ Did("resolve") /\ Did("followup") /\ Did("confirm"))
  /\ [](pc = "idle" =>
          /\ IsNull(commandTemplate) /\ confirmText = "" /\ ~requiresConfirmation
          /\ log.steps = <<>>)
  /\ [][pc' = "executed" /\ pc # "executed" /\ requiresConfirmation
          => pc = "confirmed" /\ log.confirmedAt = turn /\ log.resolvedAt = turn]_vars

C10_Witness ==
  /\ turn = 2 /\ log.confirmedAt = 1
  /\ pc = "spoke" /\ IsMutating(intent) /\ Did("cancel") /\ ~Did("execute")
  /\ ~IsNull(memory.lastAction) /\ IsMutating(Val(memory.lastAction))

\* the step the running turn has just taken
LastStep(l) == IF Len(l.steps) = 0 THEN "" ELSE l.steps[Len(l.steps)]

\* C11: the confirmation decision is Confirmed exactly when the lower-cased follow-up
\* contains "confirm", "proceed" or "yes", and Cancelled for every other text, the empty
\* text included, in chat mode and in listen mode alike.
C11_ConfirmedIffAffirmation ==
  [][pc = "followup" =>
       IF HasAffirmation(confirmText)
       THEN pc' = "confirmed" /\ LastStep(log') = "confirm" /\ spoken' = spoken
       ELSE /\ LastStep(log') = "cancel" /\ pc' \in {"spoke", "crashed"}
            /\ pc' = "spoke" => spoken' = "Action cancelled."]_vars

C11_Witness ==
  /\ mode = "listen" /\ pc = "confirmed" /\ confirmText = "yesterday"
  /\ LastStep(log) = "confirm"

\* the refusal of the running turn came from the staged-change probe reporting nothing
RefusedForNothingStaged ==
  intent = "MAKE_COMMIT" /\ Truthy(params.message) /\ repo.git = "clean"

\* C12: after a refusal the caller speaks the "no staged changes" text only when the
\* absence of staged changes caused the refusal, and the "not available or parameters
\* missing" text for every other cause, a MAKE_COMMIT without a message included.
C12_RefusalTextNamesCause ==
  pc = "spoke" /\ LastStep(log) = "refuse" =>
    IF RefusedForNothingStaged THEN spoken = NothingStagedText
    ELSE spoken = NotAvailableText(intent)

\* the planner service answered in the running turn (no fallback to the classifier)
PlannerAnswered == ~IsNull(log.agent) /\ ~Val(log.agent).response.fails

\* C13: whenever the planner's confidence is below the threshold, a response without a
\* confidence value included, the turn ends without the resolver or executeCommand being
\* invoked, whether or not a clarifying question came with it.
C13_LowConfidenceNeverRuns ==
  PlannerAnswered /\ Val(log.agent).result.confidence < ConfidenceThreshold =>
    ~Did("resolve") /\ ~Did("refuse") /\ ~Did("execute")

\* planAndExplain fell back to the classifier in the running turn
PlannerFellBack == ~IsNull(log.agent) /\ Val(log.agent).response.fails

\* what the planner service does in the cases tried: every failure, and one answer that a
\* session without credential never asks for
FallbackCases ==
  {x \in PlannerResponses : x.fails}
    \cup {PlannerResponse(FALSE, "GIT_STATUS", Some(9), Null, Null, NoParams)}

\* C14: when the request fails, the answer cannot be used or the credential is missing,
\* planAndExplain returns the intent, parameters and confidence of routeIntent for the same
\* utterance, and the turn gets the plan the classifier-only path would have made.
C14_FallbackIsClassifier ==
  /\ [](pc = "heard" =>
          \A key \in BOOLEAN, response \in FallbackCases :
            ~key \/ response.fails =>
              LET a == planAndExplain(transcription, memory, key, response)
                  r == routeIntent(transcription)
              IN [a EXCEPT !.explanation = Null]
                   = AgentResult(r.intent, r.params, Null, r.confidence, Null))
  /\ [][pc = "heard" /\ useAgent /\ (~apiKey \/ (~IsNull(log'.agent)
                                                   /\ Val(log'.agent).response.fails)) =>
          LET plan == createPlan(routeIntent(transcription))
          IN /\ intent' = plan.intent /\ params' = plan.params
             /\ requiresConfirmation' = plan.requiresConfirmation
             /\ \/ pc' = "planned"
                \/ plan.intent = "EXPLAIN_FAILURE" /\ LastStep(log') = "explain"]_vars

C14_Witness ==
  /\ PlannerFellBack /\ pc = "executed" /\ intent = "MAKE_COMMIT"
  /\ params.message = Some("fix login") /\ Did("confirm")

\* C15: every intent the planner overlay hands to the pipeline is in the closed Intent
\* set; a response naming another intent, or none, becomes UNKNOWN and is neither
\* resolved nor executed.
C15_PlannerIntentInClosedSet ==
  /\ intent \in Intent
  /\ ~IsNull(log.agent) => Val(log.agent).result.intent \in Intent
  /\ PlannerAnswered /\ Val(log.agent).response.intent \notin Intent =>
       /\ Val(log.agent).result.intent = "UNKNOWN" /\ intent = "UNKNOWN"
       /\ ~Did("resolve") /\ ~Did("refuse") /\ ~Did("execute")

C15_Witness ==
  /\ PlannerAnswered /\ Val(log.agent).response.intent = "DELETE_REPO"
  /\ intent = "UNKNOWN" /\ pc = "spoke" /\ spoken = UnknownText /\ LastStep(log) = "unknown"

\* the steps in which a turn fails
FailureSteps == {"capture-failed", "transcribe-failed", "followup-failed", "refuse", "cancel"}

\* C16: in chat mode no failure of a turn ends the session: a failed turn ends where every
\* turn ends, the next capture follows, and the loop is left only on an EXIT intent.
C16_ChatSessionSurvivesFailures ==
  /\ [](mode = "chat" =>
          /\ pc \notin {"crashed", "done"}
          /\ pc = "exited" => intent = "EXIT" /\ LastStep(log) = "exit"
          /\ pc = "spoke" => ENABLED NextTurn
          /\ pc = "idle" /\ turn <= MaxTurns => ENABLED Capture)
  /\ [][mode = "chat" =>
          /\ LastStep(log') \in FailureSteps /\ log' # log => pc' = "spoke"
          /\ pc = "executed" => pc' = "updated"
          /\ pc = "updated" => pc' = "spoke"
          /\ pc = "spoke" => pc' = "idle" /\ turn' = turn + 1 /\ memory' = memory]_vars

C16_Witness ==
  /\ mode = "chat" /\ turn = 2 /\ pc = "heard"
  /\ ~IsNull(memory.lastFailure) /\ memory.lastExitCode # 0

\* C17: a chat session ends exactly on a turn whose intent is EXIT; that turn resolves and
\* executes nothing, leaves the memory alone and is followed by no capture; a turn with any
\* other intent goes on to the next capture; the classifier turns every utterance that
\* holds "exit" into EXIT.
C17_SessionEndsOnExit ==
  /\ [](mode = "chat" /\ pc = "exited" =>
          /\ intent = "EXIT" /\ log.steps = <<"capture", "plan", "exit">>
          /\ memory = log.before
          /\ IsNull(commandTemplate) /\ result = NoResult)
  /\ [][mode = "chat" =>
          /\ pc # "exited"
          /\ pc = "planned" /\ intent = "EXIT" => pc' = "exited"
          /\ pc = "planned" /\ intent # "EXIT" => pc' \in {"spoke", "resolved"}
          /\ pc = "heard" /\ ~(useAgent /\ apiKey)
               /\ (\E k \in 1..Len(transcription) : At(toLowerCase(transcription), "exit", k))
               => intent' = "EXIT"]_vars

C17_Witness ==
  /\ mode = "chat" /\ pc = "exited" /\ turn = 2 /\ ~useAgent
  /\ memory.lastAction = Some("RUN_TESTS")

\* the rules of the classifier in their order: intent, keywords, confidence in tenths
RouteRules ==
  <<[intent |-> "EXIT", words |-> {"exit", "quit", "stop", "bye", "goodbye"}, c |-> 10],
    [intent |-> "HELP", words |-> {"help", "what can you do", "commands", "options"},
     c |-> 10],
    [intent |-> "REPEAT_LAST",
     words |-> {"repeat", "say that again", "repeat last", "what did you say"}, c |-> 10],
    [intent |-> "DETAILS",
     words |-> {"details", "more details", "show details", "tell me more", "explain more"},
     c |-> 10],
    [intent |-> "EXPLAIN_FAILURE",
     words |-> {"explain failure", "why did it fail", "what went wrong",
                "explain the error", "what failed"}, c |-> 10],
    [intent |-> "RUN_TESTS",
     words |-> {"run tests", "test", "tests", "run test suite", "execute tests"}, c |-> 9],
    [intent |-> "GIT_STATUS",
     words |-> {"git status", "status", "git state", "what changed", "show changes",
                "check status"}, c |-> 9],
    [intent |-> "RUN_LINT",
     words |-> {"run lint", "lint", "check lint", "linter", "run linter"}, c |-> 9],
    [intent |-> "RUN_BUILD",
     words |-> {"run build", "build", "compile", "build project"}, c |-> 9],
    [intent |-> "CREATE_BRANCH", words |-> {"create branch", "new branch", "make branch"},
     c |-> 8],
    [intent |-> "MAKE_COMMIT", words |-> {"commit", "make commit", "create commit"},
     c |-> 8]>>

\* text holds word at some position
Holds(text, word) == \E k \in 1..Len(text) : At(text, word, k)

\* rule k matches the utterance
RuleMatches(k, text) == \E w \in RouteRules[k].words : Holds(toLowerCase(text), w)

\* C18: routeIntent returns the intent of the first rule, in the order EXIT ... MAKE_COMMIT,
\* that matches the utterance, with confidence 1.0 for a session-control intent and 0.9
\* for an action intent, and UNKNOWN when no rule matches.
C18_FirstMatchingRuleWins ==
  pc = "routed" =>
    LET hits == {k \in 1..Len(RouteRules) : RuleMatches(k, transcription)}
    IN IF hits = {} THEN result.intent = "UNKNOWN" /\ result.confidence = 0
       ELSE LET first == CHOOSE k \in hits : \A j \in hits : k <= j
            IN /\ result.intent = RouteRules[first].intent
               /\ first <= 9 => /\ result.confidence = RouteRules[first].c
                                /\ result.params = NoParams

C18_Witness ==
  /\ pc = "routed" /\ transcription = "commit run tests"
  /\ result = IntentResult("RUN_TESTS", NoParams, 9)

\* C19: a parameterized intent comes with confidence 0.8 and its parameter, or with
\* confidence 0.7 and no parameter; "create branch", "new branch" and "make branch" alone
\* give CREATE_BRANCH with 0.7 and no name, "commit" alone MAKE_COMMIT with 0.7 and no
\* message.
C19_KeywordAloneHasNoParameter ==
  pc = "routed" =>
    /\ result.intent = "CREATE_BRANCH" =>
         \/ result.confidence = 8 /\ Truthy(result.params.name)
         \/ result.confidence = 7 /\ result.params = NoParams
    /\ result.intent = "MAKE_COMMIT" =>
         \/ result.confidence = 8 /\ Truthy(result.params.message)
         \/ result.confidence = 7 /\ result.params = NoParams
    /\ transcription \in {"create branch", "new branch", "make branch"} =>
         result = IntentResult("CREATE_BRANCH", NoParams, 7)
    /\ transcription = "commit" => result = IntentResult("MAKE_COMMIT", NoParams, 7)

\* C20: "create branch <name>" is classified as CREATE_BRANCH with the lower-cased name as
\* params.name, for every name of letters, digits, hyphens and underscores, and
\* "commit <message>" as MAKE_COMMIT with params.message equal to the message, whatever
\* words the name or the message holds.
C20_SpokenParameterIsKept ==
  pc = "routed" =>
    /\ \A n \in SpokenNames :
         transcription = "create branch " \o n =>
           /\ result.intent = "CREATE_BRANCH"
           /\ result.params.name = Some(toLowerCase(n))
    /\ \A m \in SpokenMessages :
         transcription = "commit " \o m =>
           /\ result.intent = "MAKE_COMMIT"
           /\ result.params.message = Some(m)

\* no classifier rule matches the utterance
NoRuleMatches(text) == \A k \in 1..Len(RouteRules) : ~RuleMatches(k, text)

\* C21: an utterance that no classifier rule matches is classified UNKNOWN with
\* confidence 0; a turn whose intent is UNKNOWN has no resolve, refuse or execute step and
\* its memory is the memory the turn started with; the turn is answered with the fixed
\* "I didn't understand" text, and in chat mode the next step is the next capture.
C21_UnknownOnlyReported ==
  /\ [](/\ pc = "heard" /\ NoRuleMatches(transcription) =>
             routeIntent(transcription) = IntentResult("UNKNOWN", NoParams, 0)
        /\ intent = "UNKNOWN" =>
             /\ ~Did("resolve") /\ ~Did("refuse") /\ ~Did("execute") /\ ~Did("update")
             /\ memory = log.before
        /\ LastStep(log) = "unknown" /\ pc = "spoke" => spoken = UnknownText)
  /\ [][/\ pc = "heard" /\ ~(useAgent /\ apiKey) /\ NoRuleMatches(transcription) =>
             intent' = "UNKNOWN"
        /\ pc = "planned" /\ intent = "UNKNOWN" =>
             /\ LastStep(log') = "unknown"
             /\ pc' = "spoke" \/ (mode = "listen" /\ pc' = "crashed")
        /\ mode = "chat" /\ pc = "spoke" /\ LastStep(log) = "unknown" =>
             pc' = "idle" /\ turn' = turn + 1 /\ memory' = memory]_vars

C21_Witness ==
  /\ mode = "chat" /\ turn = 2 /\ pc = "spoke" /\ ~useAgent
  /\ intent = "UNKNOWN" /\ LastStep(log) = "unknown"
  /\ spoken = UnknownText
  /\ memory.lastAction # Null /\ memory = log.before

\* the lines from position `from` on
LinesFrom(lines, from) == SubSeq(lines, from, Len(lines))

\* the last 20 lines of text, all of them when there are fewer, joined again
LastTwenty(text) ==
  LET lines == SplitLines(text)
  IN Join(LinesFrom(lines, IF Len(lines) > 20 THEN Len(lines) - 19 ELSE 1), "\n")

\* the memory fields that getDetails reads are those of the latest recorded call
RecalledOutput == OrElse(log[Len(log)].result.stdout, log[Len(log)].result.stderr)

\* C22 (as stated): getDetails returns the "no previous action" message exactly when no
\* action has run; otherwise exactly the last 20 lines of lastStdout when non-empty, else
\* of lastStderr.
C22_DetailsAreLastLines ==
  pc = "answered" /\ intent = "DETAILS" =>
    /\ spoken = NoActionText <=> Len(log) = 0
    /\ Len(log) > 0 => spoken = LastTwenty(RecalledOutput)

\* C22 (amended): getDetails returns the "no previous action" message exactly when no
\* action has run; when the last action wrote neither stdout nor stderr it returns the
\* fixed "no output available" message; otherwise exactly the last 20 lines (all lines
\* when there are fewer) of lastStdout when non-empty, else of lastStderr; the call leaves
\* the memory as it was.
C22_DetailsAreLastLinesOrNoOutput ==
  /\ [](pc = "answered" /\ intent = "DETAILS" =>
          /\ spoken = NoActionText <=> Len(log) = 0
          /\ Len(log) > 0 =>
               /\ memory.lastStdout = log[Len(log)].result.stdout
               /\ memory.lastStderr = log[Len(log)].result.stderr
               /\ spoken = IF RecalledOutput = "" THEN NoOutputText
                           ELSE LastTwenty(RecalledOutput))
  /\ [][pc' = "answered" /\ intent' = "DETAILS" => memory' = memory]_vars

C22_Witness ==
  /\ pc = "answered" /\ intent = "DETAILS" /\ Len(log) = 2
  /\ Len(SplitLines(log[2].result.stdout)) = 25
  /\ spoken = "6\n7\n8\n9\n10\n11\n12\n13\n14\n15\n16\n17\n18\n19\n20\n21\n22\n23\n24\n25"

\* the first three lines of text that are not blank, fewer when there are fewer
FirstThree(text) ==
  LET lines == NonBlank(SplitLines(text))
  IN SubSeq(lines, 1, IF Len(lines) > 3 THEN 3 ELSE Len(lines))

\* C23: explainFailure returns the "no failure" message exactly when no call of the
\* history failed; otherwise it names the intent and the exit code of the latest failing
\* call, followed by at most the first three non-blank lines of that failure's stderr, or
\* of its stdout when its stderr is empty; the call leaves the memory as it was.
C23_ExplainsLatestFailure ==
  /\ [](pc = "answered" /\ intent = "EXPLAIN_FAILURE" =>
          /\ spoken = NoFailureText <=> \A k \in 1..Len(log) : log[k].result.success
          /\ ~IsNull(LastFailing(log)) =>
               LET f == Val(LastFailing(log))
                   head == "Last failure was during " \o f.intent \o ". Exit code: "
                             \o ToString(f.exitCode) \o "."
               IN /\ f.stderr # "" =>
                       /\ Len(FirstThree(f.stderr)) \in 1..3
                       /\ spoken = head \o " Error: " \o Join(FirstThree(f.stderr), ". ")
                  /\ f.stderr = "" /\ f.stdout # "" =>
                       spoken = head \o " Output: " \o Join(FirstThree(f.stdout), ". ")
                  /\ f.stderr = "" /\ f.stdout = "" => spoken = head)
  /\ [][pc' = "answered" /\ intent' = "EXPLAIN_FAILURE" => memory' = memory]_vars

C23_Witness ==
  /\ pc = "answered" /\ intent = "EXPLAIN_FAILURE" /\ Len(log) = 2
  /\ log[1].intent = "MAKE_COMMIT" /\ log[1].result.exitCode = 2 /\ log[2].result.success
  /\ spoken = "Last failure was during MAKE_COMMIT. Exit code: 2."
                \o " Error: error TS1. error TS2. error TS3"

\* C24: in a chat session the remembered summary is empty until the first execution
\* completes, is then set by each completed execution to the summary of that execution
\* and is changed by no other step, whatever the turns in between; a REPEAT_LAST turn
\* speaks the remembered summary, or the fixed "no previous summary" text while no
\* execution has completed, takes no resolve or execute step and leaves the memory as it
\* was.
C24_RepeatsLastSummary ==
  /\ [](mode = "chat" =>
          /\ IsNull(memory.lastAction) <=> memory.lastSummary = ""
          /\ intent = "REPEAT_LAST" =>
               /\ ~Did("resolve") /\ ~Did("refuse") /\ ~Did("execute") /\ ~Did("update")
               /\ memory = log.before)
  /\ [][mode = "chat" =>
          /\ pc = "executed" =>
               /\ pc' = "updated"
               /\ memory'.lastSummary = summarize(intent, result)
               /\ memory'.lastAction = Some(intent)
          /\ pc # "executed" => memory' = memory
          /\ pc = "planned" /\ intent = "REPEAT_LAST" =>
               /\ pc' = "spoke" /\ LastStep(log') = "repeat"
               /\ spoken' = IF IsNull(memory.lastAction) THEN "No previous summary to repeat."
                            ELSE memory.lastSummary]_vars

C24_Witness ==
  /\ mode = "chat" /\ turn = 2 /\ pc = "spoke" /\ intent = "REPEAT_LAST"
  /\ LastStep(log) = "repeat"
  /\ memory.lastAction = Some("GIT_STATUS")
  /\ spoken = memory.lastSummary /\ spoken # ""

\* the events of `events` that settle a promise
Settling(events) == SelectSeq(events, LAMBDA e : e.type \in {"close", "error"})

RECURSIVE Collected(_, _)
\* the data that arrived on `pipe` before the first 'close' or 'error' of `events`
Collected(events, pipe) ==
  IF events = <<>> \/ Head(events).type \in {"close", "error"} THEN ""
  ELSE (IF Head(events).type = pipe THEN Head(events).data ELSE "")
         \o Collected(Tail(events), pipe)

RawLines == NonBlank(SplitLines(Collected(log.handled, "stdout")))

\* the porcelain lines of stdout whose status column is `status`
LinesWith(status) == SelectSeq(RawLines, LAMBDA l : SubSeq(l, 1, 2) = status)

\* the filename of a porcelain line
NameIn(line) == SubSeq(line, 4, Len(line))

\* the filenames of stdout that the summary mentions
Listed == {k \in 1..Len(RawLines) : Includes(summary, NameIn(RawLines[k]))}

\* C26: for m modified and u untracked porcelain lines summarizeGitStatus reports the
\* counts m and u, lists at most five filenames, and when m + u > 5 ends with the number
\* of files it did not list, which is m + u - 5; empty output gives the "clean" text.
C26_ListsFiveAndCountsTheRest ==
  (/\ pc = "summarized" /\ intent = "GIT_STATUS" /\ result.success
   /\ \A k \in 1..Len(RawLines) : SubSeq(RawLines[k], 1, 2) \in {"M ", "??"}) =>
      LET m == Len(LinesWith("M "))
          u == Len(LinesWith("??"))
      IN /\ m + u = 0 => summary = "Working directory is clean. No changes."
         /\ m + u > 0 =>
              /\ Includes(summary, "Found " \o ToString(m) \o " modified file")
              /\ u > 0 => Includes(summary, " and " \o ToString(u) \o " untracked file")
              /\ Cardinality(Listed) <= 5
              /\ Cardinality(Listed) = (IF m + u > 5 THEN 5 ELSE m + u)
              /\ m + u > 5 =>
                   /\ Includes(summary, " and " \o ToString(m + u - 5) \o " more")
                   /\ m + u - 5 = m + u - Cardinality(Listed)
              /\ m + u <= 5 => ~Includes(summary, " more")

\* the scripts entry of each script intent, with its arguments for pnpm and for npm
ScriptIntents ==
  [RUN_TESTS |-> [script |-> "test", pnpm |-> <<"test">>, npm |-> <<"test">>],
   RUN_LINT |-> [script |-> "lint", pnpm |-> <<"lint">>, npm |-> <<"run", "lint">>],
   RUN_BUILD |-> [script |-> "build", pnpm |-> <<"build">>, npm |-> <<"run", "build">>]]

\* the manifest can be read and parsed and its scripts hold a non-empty entry `script`
Declares(r, script) == r.manifest = "parsed" /\ r.scripts[script] \notin {Null, Some("")}

\* C27: for RUN_TESTS, RUN_LINT and RUN_BUILD getCommandForIntent returns a template
\* exactly when the manifest exists, pnpm-lock.yaml or package-lock.json exists and the
\* scripts declare test, lint or build; the command is pnpm when pnpm-lock.yaml exists and
\* npm otherwise, the arguments are [test], [lint], [build] for pnpm and [test],
\* [run, lint], [run, build] for npm; the parameters make no difference, and a manifest
\* that cannot be parsed gives a refusal.
C27_ScriptTemplates ==
  pc = "returned" /\ intent \in DOMAIN ScriptIntents =>
    LET s == ScriptIntents[intent]
    IN /\ ~IsNull(commandTemplate) <=>
            /\ repo.manifest # "missing"
            /\ repo.pnpmLock \/ repo.npmLock
            /\ Declares(repo, s.script)
       /\ ~IsNull(commandTemplate) =>
            /\ Val(commandTemplate).command = (IF repo.pnpmLock THEN "pnpm" ELSE "npm")
            /\ Val(commandTemplate).args = (IF repo.pnpmLock THEN s.pnpm ELSE s.npm)
       /\ repo.manifest = "unparsable" => IsNull(commandTemplate)
       /\ \A p \in ResolveParams : getCommandForIntent(intent, p, repo) = commandTemplate

C27_Witness ==
  /\ pc = "returned" /\ intent = "RUN_LINT"
  /\ repo.manifest = "parsed" /\ repo.pnpmLock /\ repo.npmLock
  /\ repo.scripts.lint = Some("run-it") /\ repo.scripts.test = Null
  /\ commandTemplate = Template("pnpm", <<"lint">>)

\* the steps of a turn that ran a command, in order; the planner's explanation and the
\* confirmation are there for some turns only
ExecutedTurns ==
  {<<"capture", "plan">> \o e \o <<"resolve">> \o c \o <<"execute", "update", "speak">> :
     e \in {<<>>, <<"explain">>}, c \in {<<>>, <<"followup", "confirm">>}}

\* C28: in a chat session an utterance is captured only when the turn before it has
\* ended; a turn captures one utterance, runs at most one command and writes the memory at
\* most once, and a turn that runs a command goes through plan, resolve, confirmation,
\* execution, memory update and speech before the turn counter moves on; the memory is
\* written only by the update step of the turn that ran the command.
C28_TurnsDoNotOverlap ==
  /\ [](mode = "chat" =>
          /\ StepCount("capture") <= 1 /\ StepCount("execute") <= 1
          /\ StepCount("update") <= 1
          /\ Did("execute") /\ pc = "spoke" => log.steps \in ExecutedTurns
          /\ Did("execute") => \E t \in ExecutedTurns :
                                 /\ Len(log.steps) <= Len(t)
                                 /\ log.steps = SubSeq(t, 1, Len(log.steps)))
  /\ [][mode = "chat" =>
          /\ pc' = "heard" => pc = "idle" /\ log.steps = <<>> /\ log'.steps = <<"capture">>
          /\ turn' # turn => pc = "spoke" /\ pc' = "idle" /\ log'.steps = <<>>
          /\ memory' # memory => LastStep(log) = "execute" /\ LastStep(log') = "update"
          /\ pc = "executed" => pc' = "updated" /\ turn' = turn]_vars

C28_Witness ==
  /\ mode = "chat" /\ turn = 2 /\ pc = "spoke"
  /\ log.steps = <<"capture", "plan", "resolve", "followup", "confirm", "execute", "update",
                   "speak">>
  /\ ~IsNull(log.before.lastAction) /\ memory # log.before

\* what each summarizer says of a result without any output
OutputlessPhrases ==
  [RUN_TESTS |-> [ok |-> "All tests passed. all tests passed.",
                  failed |-> "Tests failed. some tests failed, 0 passed."],
   GIT_STATUS |-> [ok |-> "Working directory is clean. No changes.",
                   failed |-> "Git status failed: Unknown error"],
   RUN_LINT |-> [ok |-> "Lint passed. No issues found.",
                 failed |-> "Lint failed. Check output for details."],
   RUN_BUILD |-> [ok |-> "Build completed successfully.",
                  failed |-> "Build failed. Check output for details."],
   CREATE_BRANCH |-> [ok |-> "Command completed successfully.",
                      failed |-> "Command failed: Unknown error"],
   MAKE_COMMIT |-> [ok |-> "Command completed successfully.",
                    failed |-> "Command failed: Unknown error"]]

\* C29: summarize gives the result of summarizeTests, summarizeGitStatus, summarizeLint
\* or summarizeBuild for RUN_TESTS, GIT_STATUS, RUN_LINT or RUN_BUILD and of
\* summarizeGeneric for CREATE_BRANCH and MAKE_COMMIT; the summary of every result is a
\* non-empty text, and for a result without output it is the fixed phrase of the
\* summarizer.
C29_SummarizeIsTotal ==
  pc = "summarized" =>
    /\ summary # ""
    /\ intent = "RUN_TESTS" => summary = summarizeTests(result)
    /\ intent = "GIT_STATUS" => summary = summarizeGitStatus(result)
    /\ intent = "RUN_LINT" => summary = summarizeLint(result)
    /\ intent = "RUN_BUILD" => summary = summarizeBuild(result)
    /\ intent \in {"CREATE_BRANCH", "MAKE_COMMIT"} => summary = summarizeGeneric(result)
    /\ result.stdout = "" /\ result.stderr = "" =>
         summary = IF result.success THEN OutputlessPhrases[intent].ok
                   ELSE OutputlessPhrases[intent].failed

C29_Witness ==
  /\ pc = "summarized" /\ intent = "RUN_BUILD"
  /\ result = [stdout |-> "", stderr |-> "", exitCode |-> 1, success |-> FALSE]
  /\ log.handled[1].type = "stderr"
  /\ summary = "Build failed. Check output for details."

\* C30: for GIT_STATUS the summary of the result of executeCommand is the summary of the
\* output as git wrote it: every porcelain line is counted by its two-character status
\* column and, when at most five files changed, listed under its full filename, a first
\* line of the form " M <file>" included.
C30_TrimKeepsStatusAndName ==
  pc = "summarized" /\ intent = "GIT_STATUS" /\ result.success =>
    /\ summary = summarizeGitStatus([result EXCEPT !.stdout = Collected(log.handled, "stdout")])
    /\ Len(RawLines) \in 1..5 =>
         /\ \A k \in 1..Len(RawLines) : Includes(summary, " " \o NameIn(RawLines[k]))
         /\ Includes(summary, "Found " \o ToString(Len(RawLines) - Len(LinesWith("??")))
                                \o " modified file")

\* the intents for which getCommandForIntent has a case
ExecutableIntents ==
  {"RUN_TESTS", "GIT_STATUS", "RUN_LINT", "RUN_BUILD", "CREATE_BRANCH", "MAKE_COMMIT"}

\* C31: in every state of a chat session lastAction is empty or one of the six executable
\* intents; a recorded lastFailure comes with a non-empty lastAction and has a non-zero
\* exit code; and when lastExitCode is non-zero, lastFailure is the record of lastAction,
\* lastStdout, lastStderr and lastExitCode.
C31_MemoryWellFormed ==
  mode = "chat" =>
    /\ IsNull(memory.lastAction) \/ Val(memory.lastAction) \in ExecutableIntents
    /\ ~IsNull(memory.lastFailure) =>
         /\ ~IsNull(memory.lastAction)
         /\ Val(memory.lastFailure).exitCode # 0
         /\ Val(memory.lastFailure).intent \in ExecutableIntents
    /\ memory.lastExitCode # 0 =>
         /\ ~IsNull(memory.lastAction)
         /\ memory.lastFailure = Some([intent |-> Val(memory.lastAction),
                                       stdout |-> memory.lastStdout,
                                       stderr |-> memory.lastStderr,
                                       exitCode |-> memory.lastExitCode])

C31_Witness ==
  /\ mode = "chat" /\ turn = 2 /\ pc = "updated"
  /\ memory.lastAction = Some("GIT_STATUS") /\ memory.lastExitCode = 0
  /\ ~IsNull(memory.lastFailure) /\ Val(memory.lastFailure).intent = "RUN_TESTS"
  /\ Val(memory.lastFailure).exitCode = 1 /\ Val(memory.lastFailure).stderr = ""

\* C32: when capturing the confirmation follow-up throws in a chat session, the template
\* resolved in that turn is not executed, the memory stays as it was when the turn began,
\* the error is spoken, and the next step is the next turn, which starts without a
\* template.
C32_FailedFollowUpRunsNothing ==
  /\ [](mode = "chat" /\ Did("followup-failed") =>
          /\ ~Did("execute") /\ ~Did("update") /\ ~Did("confirm")
          /\ memory = log.before
          /\ pc = "spoke" /\ spoken = ErrorText
          /\ ~IsNull(commandTemplate) /\ requiresConfirmation)
  /\ [][mode = "chat" =>
          /\ LastStep(log') = "followup-failed" /\ log' # log =>
               /\ pc = "resolved" /\ ~IsNull(commandTemplate) /\ IsMutating(intent)
               /\ result' = result /\ repo' = repo /\ memory' = memory
          /\ Did("followup-failed") =>
               /\ pc' = "idle" /\ turn' = turn + 1 /\ memory' = memory /\ repo' = repo
               /\ commandTemplate' = Null /\ ~requiresConfirmation']_vars

C32_Witness ==
  /\ mode = "chat" /\ turn = 2 /\ pc = "spoke"
  /\ log.steps = <<"capture", "plan", "resolve", "followup-failed">>
  /\ intent = "MAKE_COMMIT" /\ ~IsNull(commandTemplate)
  /\ ~IsNull(memory.lastAction) /\ memory = log.before

\* C33: the name that a CREATE_BRANCH template puts after `-b` never begins with a
\* hyphen, whatever name was given.
C33_BranchNameIsNoOption ==
  pc = "returned" /\ intent = "CREATE_BRANCH" /\ ~IsNull(commandTemplate) =>
    /\ SubSeq(Val(commandTemplate).args, 1, 2) = <<"checkout", "-b">>
    /\ Ch(Val(commandTemplate).args[3], 1) # "-"

\* text begins with prefix
StartsWith(text, prefix) == Len(text) >= Len(prefix) /\ SubSeq(text, 1, Len(prefix)) = prefix

\* C34: recordAudio calls resolve or reject at most once, and exactly once when the
\* first 'error', 'close' or timeout has happened; that first event decides the outcome
\* (a spawn error and the timeout reject, a 'close' resolves with the output path for exit
\* code 0 and rejects otherwise) and no later event changes it; a 'close' leaves no
\* timeout pending and no timeout fires after it; the timeout, when it is first, sends
\* SIGTERM to the process; and the promise is settled eventually, whether or not ffmpeg
\* ever exits.
C34_RecordSettlesOnce ==
  /\ [](/\ Len(log.calls) <= 1
        /\ pc = "pending" <=> log.events = <<>>
        /\ pc # "pending" <=> log.settled
        /\ pc # "pending" <=> Len(log.calls) = 1
        /\ log.events # <<>> =>
             LET first == log.events[1]
             IN /\ first.type = "error" =>
                     /\ pc = "rejected" /\ log.calls = <<"reject">>
                     /\ StartsWith(spoken, "Failed to start audio recording. ")
                     /\ log.signals = <<>>
                /\ first.type = "close" =>
                     /\ IF first.code = Some(0)
                        THEN pc = "resolved" /\ spoken = OutputPath
                                /\ log.calls = <<"resolve">>
                        ELSE pc = "rejected" /\ log.calls = <<"reject">>
                                /\ StartsWith(spoken, "FFmpeg recording failed with exit code ")
                     /\ log.signals = <<>>
                /\ first.type = "timeout" =>
                     /\ pc = "rejected" /\ log.calls = <<"reject">>
                     /\ StartsWith(spoken, "Recording timeout after "
                                             \o ToString(log.durationSeconds + 2) \o " seconds.")
                     /\ log.signals # <<>> /\ log.signals[1] = "SIGTERM"
        /\ log.process = "closed" => log.timeoutHandle # "set"
        /\ \A j, k \in 1..Len(log.events) :
             log.events[j].type = "close" /\ log.events[k].type = "timeout" => k < j)
  /\ [][pc # "pending" => pc' = pc /\ spoken' = spoken /\ log'.calls = log.calls]_vars
  /\ <>(pc # "pending")

C34_Witness ==
  /\ mode = "record" /\ pc = "rejected"
  /\ Len(log.events) = 3
  /\ log.events[1].type = "timeout" /\ log.events[2].type = "error"
  /\ log.events[3].type = "close"
  /\ log.calls = <<"reject">> /\ log.signals = <<"SIGTERM">>
  /\ log.stderrOutput # "" /\ Includes(spoken, "Last output: ")

====
